---------------------------- MODULE Spec2Model ----------------------------
(***************************************************************************)
(* Model of zrepl's replication-progress bookkeeping (package endpoint):   *)
(* step holds / step bookmarks, the replication cursor bookmark and the    *)
(* last-received hold, on top of the ZFS store.                            *)
(*                                                                         *)
(* Strings are sequences of one-character strings, so that formatting and  *)
(* parsing of names and tags is computed character by character.           *)
(* Every outbound ZFS call of an operation is one atomic step of the       *)
(* process that runs the operation.                                        *)
(***************************************************************************)
EXTENDS Integers, Sequences, FiniteSets, TLC

\* ------------------------------------------------------------------------
\* Bounds of the model
\* ------------------------------------------------------------------------

\* number of snapshots of a filesystem (named "1" .. NSnaps, create_txg 1 ..)
NSnaps == 3

\* number of engine / port calls one behaviour may start
MaxCalls == 3

\* ------------------------------------------------------------------------
\* Strings
\* ------------------------------------------------------------------------

Digits == <<"0","1","2","3","4","5","6","7","8","9">>

HexChars == <<"0","1","2","3","4","5","6","7","8","9","a","b","c","d","e","f">>

UpperHexChars == <<"0","1","2","3","4","5","6","7","8","9","A","B","C","D","E","F">>

HexBase == 16

\* %016x prints at least this many digits; Sscanf's %016x reads at most as many
GuidWidth == 16

LowerLetters ==
    {"a","b","c","d","e","f","g","h","i","j","k","l","m",
     "n","o","p","q","r","s","t","u","v","w","x","y","z"}

UpperLetters ==
    {"A","B","C","D","E","F","G","H","I","J","K","L","M",
     "N","O","P","Q","R","S","T","U","V","W","X","Y","Z"}

DigitChars == {Digits[i] : i \in DOMAIN Digits}

\* characters ZFS allows in a component of a dataset, snapshot or bookmark name
ValidNameChars == LowerLetters \cup UpperLetters \cup DigitChars \cup {"-", "_", ".", ":", " "}

\* the space characters fmt's scanner skips inside one line
SpaceChars == {" ", "\t"}

HasChar(s, c) == \E i \in DOMAIN s : s[i] = c

CountChar(s, c) == Cardinality({i \in DOMAIN s : s[i] = c})

\* index of the first occurrence of c in s (c occurs in s)
IndexOf(s, c) == CHOOSE i \in DOMAIN s : s[i] = c /\ \A j \in 1..(i - 1) : s[j] # c

HasPrefix(s, p) == Len(s) >= Len(p) /\ SubSeq(s, 1, Len(p)) = p

\* s without its first n characters
Drop(s, n) == SubSeq(s, n + 1, Len(s))

\* fmt's %0<w>x of an unsigned number: at least w lowercase hex digits
RECURSIVE FormatHex(_, _)
FormatHex(n, w) ==
    IF w <= 0 /\ n = 0 THEN <<>>
    ELSE Append(FormatHex(n \div HexBase, w - 1), HexChars[(n % HexBase) + 1])

\* value of one hex digit as fmt's scanner reads it (either case), -1 if none
HexValue(c) ==
    IF \E i \in DOMAIN HexChars : HexChars[i] = c
    THEN (CHOOSE i \in DOMAIN HexChars : HexChars[i] = c) - 1
    ELSE IF \E i \in DOMAIN UpperHexChars : UpperHexChars[i] = c
         THEN (CHOOSE i \in DOMAIN UpperHexChars : UpperHexChars[i] = c) - 1
         ELSE -1

\* number of leading characters of s, at most max, that satisfy the hex-digit test
RECURSIVE HexRun(_, _)
HexRun(s, max) ==
    IF max = 0 \/ s = <<>> \/ HexValue(Head(s)) < 0 THEN 0
    ELSE 1 + HexRun(Tail(s), max - 1)

RECURSIVE ParseHex(_, _)
ParseHex(s, acc) ==
    IF s = <<>> THEN acc ELSE ParseHex(Tail(s), acc * HexBase + HexValue(Head(s)))

\* number of leading space characters of s
RECURSIVE SpaceRun(_)
SpaceRun(s) == IF s = <<>> \/ Head(s) \notin SpaceChars THEN 0 ELSE 1 + SpaceRun(Tail(s))

\* number of leading non-space characters of s
RECURSIVE TokenRun(_)
TokenRun(s) == IF s = <<>> \/ Head(s) \in SpaceChars THEN 0 ELSE 1 + TokenRun(Tail(s))


\* ------------------------------------------------------------------------
\* Name rules of the ZFS store (zfs.NewDatasetPath, zfs.EntityNamecheck,
\* zfs.ValidHoldTag)
\* ------------------------------------------------------------------------

SnapshotDelim == "@"

BookmarkDelim == "#"

Snapshot == "snapshot"

Bookmark == "bookmark"

\* VersionType.DelimiterChar
DelimiterChar(t) == IF t = Bookmark THEN BookmarkDelim ELSE SnapshotDelim

\* a legal dataset path: non-empty, legal characters, no empty component
NewDatasetPath(s) ==
    /\ s # <<>>
    /\ \A i \in DOMAIN s : s[i] \in ValidNameChars \cup {"/"}
    /\ s[1] # "/"
    /\ s[Len(s)] # "/"
    /\ \A i \in 1..(Len(s) - 1) : ~(s[i] = "/" /\ s[i + 1] = "/")

\* a legal full name of a snapshot (t = Snapshot) or bookmark (t = Bookmark):
\* <dataset path><delimiter><non-empty name>, with exactly one delimiter
EntityNamecheck(path, t) ==
    /\ CountChar(path, SnapshotDelim) + CountChar(path, BookmarkDelim) = 1
    /\ HasChar(path, DelimiterChar(t))
    /\ LET i == IndexOf(path, DelimiterChar(t))
       IN  /\ NewDatasetPath(SubSeq(path, 1, i - 1))
           /\ i < Len(path)
           /\ \A j \in (i + 1)..Len(path) : path[j] \in ValidNameChars

ValidHoldTag(tag) == tag # <<>> /\ \A i \in DOMAIN tag : tag[i] \in ValidNameChars

\* ------------------------------------------------------------------------
\* Version identity (zfs/versions.go)
\* ------------------------------------------------------------------------

\* strings.SplitN(v, sep, 2): the parts before and after the first sep
SplitN2(v, sep) ==
    IF HasChar(v, sep)
    THEN <<SubSeq(v, 1, IndexOf(v, sep) - 1), Drop(v, IndexOf(v, sep))>>
    ELSE <<v>>

MinVersionStringLen == 3

DecomposeVersionString(v) ==
    LET snapSplit == SplitN2(v, SnapshotDelim)
        bookmarkSplit == SplitN2(v, BookmarkDelim)
    IN  IF Len(v) < MinVersionStringLen
        THEN [ok |-> FALSE, fs |-> <<>>, versionType |-> Snapshot, name |-> <<>>]
        ELSE IF Len(snapSplit) * Len(bookmarkSplit) # 2
        THEN [ok |-> FALSE, fs |-> <<>>, versionType |-> Snapshot, name |-> <<>>]
        ELSE IF Len(snapSplit) = 2
        THEN [ok |-> TRUE, fs |-> snapSplit[1], versionType |-> Snapshot, name |-> snapSplit[2]]
        ELSE [ok |-> TRUE, fs |-> bookmarkSplit[1], versionType |-> Bookmark, name |-> bookmarkSplit[2]]

\* FilesystemVersion.ToAbsPath: <dataset><delimiter><name>
ToAbsPath(v, p) == p \o <<DelimiterChar(v.Type)>> \o v.Name

\* ------------------------------------------------------------------------
\* Job ids and the name codec (endpoint/jobid.go, endpoint/endpoint_zfs.go)
\* ------------------------------------------------------------------------

NoJobID == [ok |-> FALSE, jid |-> <<>>]

MakeJobID(s) ==
    IF Len(s) = 0 THEN NoJobID
    ELSE IF ~NewDatasetPath(s) THEN NoJobID
    ELSE [ok |-> TRUE, jid |-> s]

StepHoldTagPrefix == <<"z","r","e","p","l","_","S","T","E","P","_","J","_">>

StepBookmarkPrefix == <<"z","r","e","p","l","_","S","T","E","P","_","G","_">>

StepBookmarkJobSep == <<"_","J","_">>

LastReceivedHoldTagPrefix ==
    <<"z","r","e","p","l","_","l","a","s","t","_","r","e","c","e","i","v","e","d","_","J","_">>

ReplicationCursorBookmarkName ==
    <<"z","r","e","p","l","_","r","e","p","l","i","c","a","t","i","o","n","_",
      "c","u","r","s","o","r">>

\* fmt.Sprintf("zrepl_STEP_J_%s", jobid); ok is ValidHoldTag of the result
StepHoldTag(jobid) ==
    LET t == StepHoldTagPrefix \o jobid.jid
    IN  [ok |-> ValidHoldTag(t), tag |-> t]

\* regexp ^zrepl_STEP_J_(.+) followed by MakeJobID of the group
ParseStepHoldTag(tag) ==
    IF HasPrefix(tag, StepHoldTagPrefix) /\ Len(tag) > Len(StepHoldTagPrefix)
    THEN MakeJobID(Drop(tag, Len(StepHoldTagPrefix)))
    ELSE NoJobID

\* fmt.Sprintf("zrepl_STEP_G_%016x_J_%s", guid, id); ok is EntityNamecheck of
\* fs#bmname as a bookmark
StepBookmarkName(fs, guid, id) ==
    LET bmname == StepBookmarkPrefix \o FormatHex(guid, GuidWidth)
                    \o StepBookmarkJobSep \o id.jid
    IN  [ok |-> EntityNamecheck(fs \o <<BookmarkDelim>> \o bmname, Bookmark), name |-> bmname]

NoScan == [ok |-> FALSE, guid |-> 0, jobIDStr |-> <<>>]

\* fmt.Sscanf(name, "zrepl_STEP_G_%016x_J_%s", &guid, &jobIDStr): the literal
\* text is matched from the first character of the input; %016x skips spaces
\* and reads 1 to 16 hex digits; %s skips spaces and reads up to the next
\* space; input left over after %s is ignored
SscanfStepBookmark(name) ==
    IF ~HasPrefix(name, StepBookmarkPrefix) THEN NoScan
    ELSE LET r1 == Drop(name, Len(StepBookmarkPrefix))
             r2 == Drop(r1, SpaceRun(r1))
             n  == HexRun(r2, GuidWidth)
             r3 == Drop(r2, n)
         IN  IF n = 0 \/ ~HasPrefix(r3, StepBookmarkJobSep) THEN NoScan
             ELSE LET r4 == Drop(r3, Len(StepBookmarkJobSep))
                      r5 == Drop(r4, SpaceRun(r4))
                      t  == TokenRun(r5)
                  IN  IF t = 0 THEN NoScan
                      ELSE [ok |-> TRUE, guid |-> ParseHex(SubSeq(r2, 1, n), 0),
                            jobIDStr |-> SubSeq(r5, 1, t)]

NoStepBookmark == [ok |-> FALSE, guid |-> 0, jobID |-> NoJobID]

\* name is the full bookmark name, including dataset path
ParseStepBookmarkName(name) ==
    IF ~EntityNamecheck(name, Bookmark) THEN NoStepBookmark
    ELSE LET scan == SscanfStepBookmark(name)
         IN  IF ~scan.ok THEN NoStepBookmark
             ELSE IF Len(scan.jobIDStr) = 0 THEN NoStepBookmark
             ELSE IF ~MakeJobID(scan.jobIDStr).ok THEN NoStepBookmark
             ELSE [ok |-> TRUE, guid |-> scan.guid, jobID |-> MakeJobID(scan.jobIDStr)]

\* fmt.Sprintf("zrepl_last_received_J_%s", jobID)
LastReceivedHoldTag(jobID) ==
    LET tag == LastReceivedHoldTagPrefix \o jobID.jid
    IN  [ok |-> ValidHoldTag(tag), tag |-> tag]

\* regexp ^zrepl_last_received_J_(.+)$ followed by MakeJobID of the group
ParseLastReceivedHoldTag(tag) ==
    IF HasPrefix(tag, LastReceivedHoldTagPrefix) /\ Len(tag) > Len(LastReceivedHoldTagPrefix)
    THEN MakeJobID(Drop(tag, Len(LastReceivedHoldTagPrefix)))
    ELSE NoJobID


\* ------------------------------------------------------------------------
\* The pool: snapshots and bookmarks (versions), user holds, and whether the
\* pool can create a bookmark from a bookmark
\* ------------------------------------------------------------------------

VARIABLES
    versions,   \* set of [fs, Type, Name, Guid, CreateTXG]: existing snapshots and bookmarks
    holds,      \* set of [fs, snap, tag]: user holds on snapshots
    cloning,    \* TRUE iff the pool supports bookmarking a bookmark
    calls,      \* per process: the operation it runs, its locals and its position
    ncalls,     \* number of calls started so far
    moved,      \* the [fs, job] for which a MoveLastReceivedHold has succeeded
    recording   \* TRUE iff a call keeps the pool it started on and the pool it left

vars == <<versions, holds, cloning, calls, ncalls, moved, recording>>

Procs == {1, 2}

\* the process that makes the calls where calls are made one after the other
Caller == CHOOSE p \in Procs : \A q \in Procs : p <= q

FsA == <<"t","a","n","k","/","f","s">>

JobA == MakeJobID(<<"j","o","b","a">>)

JobB == MakeJobID(<<"j","o","b","b">>)

Jobs == {JobA, JobB}

SnapIds == 1..NSnaps

SnapName(i) == <<Digits[i + 1]>>

\* create_txg grows with the snapshot number; guids are in the opposite order
CreateTXGOf(i) == i

GuidOf(i) == HexBase * (NSnaps + 1 - i) + i

SnapVersion(fs, i) ==
    [fs |-> fs, Type |-> Snapshot, Name |-> SnapName(i), Guid |-> GuidOf(i),
     CreateTXG |-> CreateTXGOf(i)]

\* the bookmark fs#name of snapshot i
BookmarkVersion(fs, name, i) ==
    [fs |-> fs, Type |-> Bookmark, Name |-> name, Guid |-> GuidOf(i),
     CreateTXG |-> CreateTXGOf(i)]

\* name of the plain (operator-made) bookmark of snapshot i: "b<i>"
PlainBookmarkName(i) == <<"b">> \o SnapName(i)

OperatorTag == <<"z","r","e","p","l","_","p","l","a","t","f","o","r","m","t","e","s","t">>

OperatorTag2 == OperatorTag \o <<"_","2">>

\* zfs.ZFSSendArgVersion{RelName, GUID}
SendArg(relName, guid) == [RelName |-> relName, GUID |-> guid]

SnapArg(i) == SendArg(<<SnapshotDelim>> \o SnapName(i), GuidOf(i))

PlainBookmarkArg(i) == SendArg(<<BookmarkDelim>> \o PlainBookmarkName(i), GuidOf(i))

IsSnapshot(v) == v.RelName # <<>> /\ Head(v.RelName) = SnapshotDelim

IsBookmark(v) == v.RelName # <<>> /\ Head(v.RelName) = BookmarkDelim

FullPath(v, fs) == fs \o v.RelName

Pool == [versions |-> versions, holds |-> holds]

Snapshots(vs, fs) == {x \in vs : x.fs = fs /\ x.Type = Snapshot}

Bookmarks(vs, fs) == {x \in vs : x.fs = fs /\ x.Type = Bookmark}

\* the versions with the given full name (at most one)
Lookup(vs, path) == {x \in vs : ToAbsPath(x, x.fs) = path}

\* ------------------------------------------------------------------------
\* The ZFS capability port.  Every operator computes the outcome of one call
\* on the current pool: its error ("" for none) and the pool it leaves.
\* ------------------------------------------------------------------------

NoErr == ""

DatasetDoesNotExist == "DatasetDoesNotExist"

BookmarkExists == "BookmarkExists"

ErrBookmarkCloningNotSupported == "BookmarkCloningNotSupported"

ErrValidation == "Validation"

ErrBusy == "DatasetBusy"

ErrTransport == "Transport"

ErrCanOnlyBeAdvanced == "can only be advanced, not set back"

ErrEmptyFilesystem == "filesystem name must not be empty"

NoProps == [err |-> NoErr, CreateTXG |-> 0, Guid |-> 0]

ZFSGetCreateTXGAndGuid(path) ==
    IF Lookup(versions, path) = {}
    THEN [NoProps EXCEPT !.err = DatasetDoesNotExist]
    ELSE LET x == CHOOSE y \in Lookup(versions, path) : TRUE
         IN  [err |-> NoErr, CreateTXG |-> x.CreateTXG, Guid |-> x.Guid]

\* ZFSSendArgVersion.ValidateExistsAndGetCheckedProps: the name is legal, the
\* version exists and has the guid the caller gave
ValidateExistsAndGetCheckedProps(v, fs) ==
    IF ~(  \/ (IsSnapshot(v) /\ EntityNamecheck(FullPath(v, fs), Snapshot))
           \/ (IsBookmark(v) /\ EntityNamecheck(FullPath(v, fs), Bookmark)))
    THEN [NoProps EXCEPT !.err = ErrValidation]
    ELSE LET realProps == ZFSGetCreateTXGAndGuid(FullPath(v, fs))
         IN  IF realProps.err # NoErr THEN realProps
             ELSE IF realProps.Guid # v.GUID THEN [NoProps EXCEPT !.err = ErrValidation]
             ELSE realProps

\* ZFSSendArgVersion.ValidateExists
ValidateExists(v, fs) == ValidateExistsAndGetCheckedProps(v, fs).err

\* zfs hold: idempotent for a tag the snapshot already carries
ZFSHold(fs, v, tag) ==
    IF tag = <<>> \/ ~IsSnapshot(v) THEN [err |-> ErrValidation, holds |-> holds]
    ELSE IF Lookup(versions, FullPath(v, fs)) = {}
    THEN [err |-> DatasetDoesNotExist, holds |-> holds]
    ELSE [err |-> NoErr,
          holds |-> holds \cup {[fs |-> fs, snap |-> Tail(v.RelName), tag |-> tag]}]

\* zfs release of one tag from one snapshot, given by its full path
ZFSRelease(tag, path) ==
    LET d == DecomposeVersionString(path)
    IN  IF tag = <<>> \/ ~d.ok \/ d.versionType # Snapshot
        THEN [err |-> ErrValidation, holds |-> holds]
        ELSE IF Lookup(versions, path) = {}
        THEN [err |-> DatasetDoesNotExist, holds |-> holds]
        ELSE [err |-> NoErr,
              holds |-> holds \ {[fs |-> d.fs, snap |-> d.name, tag |-> tag]}]

\* ZFSBookmark that looks for an existing bookmark before it looks for the
\* source: the fault property C6 has to detect
ZFSBookmarkExistingFirst(fs, v, bookmark) ==
    LET bookmarkname == fs \o <<BookmarkDelim>> \o bookmark
        source == Lookup(versions, FullPath(v, fs))
        existing == Lookup(versions, bookmarkname)
    IN  IF ~IsSnapshot(v) /\ ~cloning
        THEN [err |-> ErrBookmarkCloningNotSupported, versions |-> versions]
        ELSE IF ~EntityNamecheck(bookmarkname, Bookmark)
        THEN [err |-> ErrValidation, versions |-> versions]
        ELSE IF existing # {}
        THEN IF \A x \in existing : x.Guid = v.GUID
             THEN [err |-> NoErr, versions |-> versions]
             ELSE [err |-> BookmarkExists, versions |-> versions]
        ELSE IF source = {}
        THEN [err |-> DatasetDoesNotExist, versions |-> versions]
        ELSE LET src == CHOOSE x \in source : TRUE
             IN  [err |-> NoErr,
                  versions |-> versions \cup
                      {[fs |-> fs, Type |-> Bookmark, Name |-> bookmark,
                        Guid |-> src.Guid, CreateTXG |-> src.CreateTXG]}]

\* zfs bookmark, idempotent: creating fs#bookmark again from the same guid
\* succeeds, from another guid it fails with BookmarkExists
ZFSBookmark(fs, v, bookmark) ==
    LET bookmarkname == fs \o <<BookmarkDelim>> \o bookmark
        source == Lookup(versions, FullPath(v, fs))
        existing == Lookup(versions, bookmarkname)
    IN  IF ~IsSnapshot(v) /\ ~cloning
        THEN [err |-> ErrBookmarkCloningNotSupported, versions |-> versions]
        ELSE IF ~EntityNamecheck(bookmarkname, Bookmark)
        THEN [err |-> ErrValidation, versions |-> versions]
        ELSE IF source = {}
        THEN [err |-> DatasetDoesNotExist, versions |-> versions]
        ELSE IF existing # {}
        THEN IF \A x \in existing : x.Guid = v.GUID
             THEN [err |-> NoErr, versions |-> versions]
             ELSE [err |-> BookmarkExists, versions |-> versions]
        ELSE LET src == CHOOSE x \in source : TRUE
             IN  [err |-> NoErr,
                  versions |-> versions \cup
                      {[fs |-> fs, Type |-> Bookmark, Name |-> bookmark,
                        Guid |-> src.Guid, CreateTXG |-> src.CreateTXG]}]

\* zfs destroy of a snapshot or bookmark given by its full path; a snapshot
\* that carries a user hold cannot be destroyed
ZFSDestroy(path) ==
    LET found == Lookup(versions, path)
    IN  IF found = {} THEN [err |-> DatasetDoesNotExist, versions |-> versions]
        ELSE IF \E x \in found, h \in holds :
                    x.Type = Snapshot /\ h.fs = x.fs /\ h.snap = x.Name
        THEN [err |-> ErrBusy, versions |-> versions]
        ELSE [err |-> NoErr, versions |-> versions \ found]

\* a missing dataset is success
ZFSDestroyIdempotent(path) ==
    LET r == ZFSDestroy(path)
    IN  IF r.err = DatasetDoesNotExist THEN [r EXCEPT !.err = NoErr] ELSE r

\* release tag from every snapshot of fs whose create_txg is below (or, with
\* includeGuid, at or below) that of the version with the given guid
ReleaseAllOlder(fs, guid, tag, includeGuid) ==
    LET ref == {x \in versions : x.fs = fs /\ x.Guid = guid}
    IN  IF tag = <<>> THEN [err |-> ErrValidation, holds |-> holds]
        ELSE IF ref = {} THEN [err |-> DatasetDoesNotExist, holds |-> holds]
        ELSE LET txg == (CHOOSE x \in ref : TRUE).CreateTXG
                 released ==
                     {h \in holds :
                        /\ h.fs = fs
                        /\ h.tag = tag
                        /\ \E x \in Snapshots(versions, fs) :
                              /\ x.Name = h.snap
                              /\ IF includeGuid THEN x.CreateTXG <= txg
                                 ELSE x.CreateTXG < txg}
             IN  [err |-> NoErr, holds |-> holds \ released]

\* the inclusive release with tags compared by prefix: the fault property C7
\* has to detect
ReleaseAllOlderAndIncludingGUIDByPrefix(fs, guid, tag) ==
    LET r == ReleaseAllOlder(fs, guid, tag, TRUE)
    IN  IF r.err # NoErr THEN r
        ELSE [r EXCEPT !.holds =
                {h \in @ : ~(/\ h.fs = fs
                             /\ HasPrefix(h.tag, tag)
                             /\ [h EXCEPT !.tag = tag] \in holds \ r.holds)}]

ZFSReleaseAllOlderAndIncludingGUID(fs, guid, tag) == ReleaseAllOlder(fs, guid, tag, TRUE)

\* the exclusive release with an inclusive bound: the fault property C8 has to
\* detect
ReleaseAllOlderThanGUIDInclusive(fs, guid, tag) == ReleaseAllOlder(fs, guid, tag, TRUE)

ZFSReleaseAllOlderThanGUID(fs, guid, tag) == ReleaseAllOlder(fs, guid, tag, FALSE)

\* zfs holds: the tags on one snapshot
ZFSHolds(hs, fs, snap) == {h.tag : h \in {g \in hs : g.fs = fs /\ g.snap = snap}}

\* ------------------------------------------------------------------------
\* zfs.ZFSListFilesystemVersions (zfs/versions.go)
\* ------------------------------------------------------------------------

\* the lines of `zfs list -t bookmark,snapshot -s createtxg fs` as a sequence
RECURSIVE SortByCreateTXG(_)
SortByCreateTXG(S) ==
    IF S = {} THEN <<>>
    ELSE LET first == CHOOSE x \in S : \A y \in S : x.CreateTXG <= y.CreateTXG
         IN  <<first>> \o SortByCreateTXG(S \ {first})

\* one FilesystemVersion per line, type and name decomposed from the full name
ParseListLine(x) ==
    LET d == DecomposeVersionString(ToAbsPath(x, x.fs))
    IN  [Type |-> d.versionType, Name |-> d.name, Guid |-> x.Guid, CreateTXG |-> x.CreateTXG]

\* filter == nil: every version is accepted
NoFilter == [closure |-> "nil", fs |-> <<>>, jobID |-> NoJobID]

\* the filter closure of ReleaseStepAll: a bookmark whose full name parses as
\* a step bookmark of jobID
StepBookmarkFilter(fs, jobID, t, name) ==
    LET parsed == ParseStepBookmarkName(fs \o <<BookmarkDelim>> \o name)
    IN  t = Bookmark /\ parsed.ok /\ parsed.jobID = jobID

\* zfs.FilterFromClosure of that closure, which captures fs and jobID
FilterFromClosure(fs, jobID) == [closure |-> "stepBookmark", fs |-> fs, jobID |-> jobID]

\* FilesystemVersionFilter.Filter
Filter(f, t, name) ==
    IF f.closure = "nil" THEN TRUE ELSE StepBookmarkFilter(f.fs, f.jobID, t, name)

\* returned versions are sorted by createtxg; the filter accepts or rejects
ZFSListFilesystemVersions(vs, fs, filter) ==
    LET lines == SortByCreateTXG({x \in vs : x.fs = fs})
        parsed == [i \in DOMAIN lines |-> ParseListLine(lines[i])]
    IN  SelectSeq(parsed, LAMBDA v : Filter(filter, v.Type, v.Name))


\* ------------------------------------------------------------------------
\* Processes: each runs one engine operation at a time, one port call per step
\* ------------------------------------------------------------------------

NoVersion == [found |-> FALSE, Type |-> Bookmark, Name |-> <<>>, Guid |-> 0, CreateTXG |-> 0]

EmptyPool == [versions |-> {}, holds |-> {}]

\* ListStepAllOutput with both lists empty
NoOutput == [StepBookmarks |-> <<>>, StepHolds |-> <<>>]

\* no call of the process was cut short just before this one
NoPrev ==
    [op |-> "none", fs |-> <<>>, v |-> SendArg(<<>>, 0), job |-> NoJobID, at |-> "",
     pre |-> EmptyPool]

IdleCall ==
    [op |-> "none", pc |-> "idle", fs |-> <<>>, v |-> SendArg(<<>>, 0), job |-> NoJobID,
     name |-> <<>>, err |-> NoErr, props |-> NoProps, destroy |-> <<>>,
     res |-> NoVersion, parsed |-> NoStepBookmark, fss |-> <<>>, fsvs |-> <<>>,
     out |-> NoOutput, seq |-> 0, at |-> "", prev |-> NoPrev, pre |-> EmptyPool,
     post |-> EmptyPool]

\* what a call keeps of a pool
Recorded(pool) == IF recording THEN pool ELSE EmptyPool

Running(p) == calls[p].pc \notin {"idle", "done"}

\* no call is in progress
Quiet == \A p \in Procs : ~Running(p)

\* the operations of which a cut-short call is remembered by the next call
Retried == {"SetReplicationCursor", "MoveLastReceivedHold"}

\* what a call keeps of the call c its process made just before, if a failing
\* port call cut c short
CutShort(c) ==
    IF recording /\ c.op \in Retried /\ c.pc = "done" /\ c.err = ErrTransport
    THEN [op |-> c.op, fs |-> c.fs, v |-> c.v, job |-> c.job, at |-> c.at, pre |-> c.pre]
    ELSE NoPrev

\* process p starts operation op at position pc with the given arguments
Begin(p, op, pc, fs, v, job, name) ==
    /\ ~Running(p)
    /\ ncalls < MaxCalls
    /\ ncalls' = ncalls + 1
    /\ calls' = [calls EXCEPT ![p] =
                    [IdleCall EXCEPT !.op = op, !.pc = pc, !.fs = fs, !.v = v, !.job = job,
                                     !.name = name, !.prev = CutShort(calls[p]),
                                     !.pre = Recorded(Pool)]]
    /\ UNCHANGED <<versions, holds, cloning, moved, recording>>

\* the call of process p returns err, leaving the pool [versions |-> vs, holds |-> hs]
Return(p, err, vs, hs) ==
    /\ calls' = [calls EXCEPT ![p].pc = "done", ![p].err = err,
                              ![p].at = IF recording /\ calls[p].op \in Retried
                                           /\ err = ErrTransport
                                        THEN calls[p].pc ELSE "",
                              ![p].post = Recorded([versions |-> vs, holds |-> hs])]
    /\ versions' = vs
    /\ holds' = hs
    /\ moved' = IF calls[p].op = "MoveLastReceivedHold" /\ err = NoErr
                THEN moved \cup {[fs |-> calls[p].fs, job |-> calls[p].job]}
                ELSE moved
    /\ UNCHANGED <<cloning, ncalls, recording>>

\* the call of process p moves on to position pc
Goto(p, pc, vs, hs) ==
    /\ calls' = [calls EXCEPT ![p].pc = pc]
    /\ versions' = vs
    /\ holds' = hs
    /\ UNCHANGED <<cloning, ncalls, moved, recording>>

\* The port call a process is about to make fails (the command dies, or the
\* context was cancelled): the operation returns that error, the pool is as
\* it was.  ZFSDestroyIdempotent and the cursor lookup treat only a missing
\* dataset as success, so this failure ends those calls too.
PortFail(p) ==
    /\ Running(p)
    /\ Return(p, ErrTransport, versions, holds)

\* ------------------------------------------------------------------------
\* GetReplicationCursor
\* ------------------------------------------------------------------------

\* GetReplicationCursor with the name test left out (any bookmark is taken
\* for the cursor): the fault property C3 has to detect
GetReplicationCursorAnyBookmark(vs, fs) ==
    LET listed == ZFSListFilesystemVersions(vs, fs, NoFilter)
        hits == {i \in DOMAIN listed : listed[i].Type = Bookmark}
    IN  IF hits = {} THEN NoVersion
        ELSE LET i == CHOOSE j \in hits : \A k \in hits : j <= k
             IN  [found |-> TRUE, Type |-> listed[i].Type, Name |-> listed[i].Name,
                  Guid |-> listed[i].Guid, CreateTXG |-> listed[i].CreateTXG]

\* the first listed version that is a bookmark named zrepl_replication_cursor
GetReplicationCursor(vs, fs) ==
    LET listed == ZFSListFilesystemVersions(vs, fs, NoFilter)
        hits == {i \in DOMAIN listed :
                    listed[i].Type = Bookmark /\ listed[i].Name = ReplicationCursorBookmarkName}
    IN  IF hits = {} THEN NoVersion
        ELSE LET i == CHOOSE j \in hits : \A k \in hits : j <= k
             IN  [found |-> TRUE, Type |-> listed[i].Type, Name |-> listed[i].Name,
                  Guid |-> listed[i].Guid, CreateTXG |-> listed[i].CreateTXG]

StartGetReplicationCursor(p, fs) ==
    Begin(p, "GetReplicationCursor", "get_list", fs, SendArg(<<>>, 0), NoJobID, <<>>)

GetList(p) ==
    /\ calls[p].pc = "get_list"
    /\ calls' = [calls EXCEPT ![p].pc = "done", ![p].err = NoErr, ![p].post = Recorded(Pool),
                              ![p].res = GetReplicationCursor(versions, calls[p].fs)]
    /\ UNCHANGED <<versions, holds, cloning, ncalls, moved, recording>>

\* ------------------------------------------------------------------------
\* SetReplicationCursor
\* ------------------------------------------------------------------------

CursorPath(fs) == fs \o <<BookmarkDelim>> \o ReplicationCursorBookmarkName

StartSetReplicationCursor(p, fs, target) ==
    Begin(p, "SetReplicationCursor", "set_validate", fs, target, NoJobID, <<>>)

\* SetValidate that takes a target it cannot validate on trust: the fault
\* property C20 has to detect
SetValidateOnTrust(p) ==
    LET c == calls[p]
        snapProps == ValidateExistsAndGetCheckedProps(c.v, c.fs)
        trusted == [err |-> NoErr, CreateTXG |-> NSnaps + 1, Guid |-> c.v.GUID]
    IN  /\ c.pc = "set_validate"
        /\ IF Len(c.fs) = 0 THEN Return(p, ErrEmptyFilesystem, versions, holds)
           ELSE /\ calls' = [calls EXCEPT
                                ![p].pc = "set_getcursor",
                                ![p].props = IF snapProps.err # NoErr THEN trusted
                                             ELSE snapProps]
                /\ UNCHANGED <<versions, holds, cloning, ncalls, moved, recording>>

\* len(fs) == 0, then target.ValidateExistsAndGetCheckedProps
SetValidate(p) ==
    LET c == calls[p]
        snapProps == ValidateExistsAndGetCheckedProps(c.v, c.fs)
    IN  /\ c.pc = "set_validate"
        /\ IF Len(c.fs) = 0 THEN Return(p, ErrEmptyFilesystem, versions, holds)
           ELSE IF snapProps.err # NoErr THEN Return(p, snapProps.err, versions, holds)
           ELSE /\ calls' = [calls EXCEPT ![p].pc = "set_getcursor", ![p].props = snapProps]
                /\ UNCHANGED <<versions, holds, cloning, ncalls, moved, recording>>

\* what SetReplicationCursor does once it has read the cursor's properties
SetDecide(snapProps, bookmarkProps) ==
    IF bookmarkProps.err = DatasetDoesNotExist THEN "set_bookmark"
    ELSE IF snapProps.CreateTXG < bookmarkProps.CreateTXG THEN "fail"
    ELSE IF bookmarkProps.Guid = snapProps.Guid THEN "noop"
    ELSE "set_destroy"

\* zfs.ZFSGetCreateTXGAndGuid(bookmarkPath) and the decision on its result
SetGetCursor(p) ==
    LET c == calls[p]
        bookmarkProps == ZFSGetCreateTXGAndGuid(CursorPath(c.fs))
        next == SetDecide(c.props, bookmarkProps)
    IN  /\ c.pc = "set_getcursor"
        /\ IF next = "fail" THEN Return(p, ErrCanOnlyBeAdvanced, versions, holds)
           ELSE IF next = "noop" THEN Return(p, NoErr, versions, holds)
           ELSE Goto(p, next, versions, holds)

\* zfs.ZFSDestroy(bookmarkPath)
SetDestroy(p) ==
    LET c == calls[p]
        r == ZFSDestroy(CursorPath(c.fs))
    IN  /\ c.pc = "set_destroy"
        /\ IF r.err # NoErr THEN Return(p, r.err, versions, holds)
           ELSE Goto(p, "set_bookmark", r.versions, holds)

\* zfs.ZFSBookmark(fs, *target, ReplicationCursorBookmarkName)
SetBookmark(p) ==
    LET c == calls[p]
        r == ZFSBookmark(c.fs, c.v, ReplicationCursorBookmarkName)
    IN  /\ c.pc = "set_bookmark"
        /\ Return(p, r.err, r.versions, holds)

SetReplicationCursor(p) == SetValidate(p) \/ SetGetCursor(p) \/ SetDestroy(p) \/ SetBookmark(p)

\* ------------------------------------------------------------------------
\* HoldStep
\* ------------------------------------------------------------------------

StartHoldStep(p, fs, v, jobID) == Begin(p, "HoldStep", "hold_validate", fs, v, jobID, <<>>)

\* v.ValidateExists, then StepHoldTag (snapshot) or StepBookmarkName (bookmark)
HoldValidate(p) ==
    LET c == calls[p]
        err == ValidateExists(c.v, c.fs)
    IN  /\ c.pc = "hold_validate"
        /\ IF err # NoErr THEN Return(p, err, versions, holds)
           ELSE IF IsSnapshot(c.v)
           THEN IF ~StepHoldTag(c.job).ok THEN Return(p, ErrValidation, versions, holds)
                ELSE Goto(p, "hold_hold", versions, holds)
           ELSE IF ~StepBookmarkName(c.fs, c.v.GUID, c.job).ok
                THEN Return(p, ErrValidation, versions, holds)
                ELSE Goto(p, "hold_bookmark", versions, holds)

\* zfs.ZFSHold(ctx, fs, *v, tag)
HoldHold(p) ==
    LET c == calls[p]
        r == ZFSHold(c.fs, c.v, StepHoldTag(c.job).tag)
    IN  /\ c.pc = "hold_hold"
        /\ Return(p, r.err, versions, r.holds)

\* HoldBookmark that takes BookmarkExists for success: the fault property C9
\* has to detect
HoldBookmarkIgnoreExists(p) ==
    LET c == calls[p]
        r == ZFSBookmark(c.fs, c.v, StepBookmarkName(c.fs, c.v.GUID, c.job).name)
    IN  /\ c.pc = "hold_bookmark"
        /\ Return(p, IF r.err = BookmarkExists THEN NoErr ELSE r.err, r.versions, holds)

\* zfs.ZFSBookmark(fs, *v, bmname)
HoldBookmark(p) ==
    LET c == calls[p]
        r == ZFSBookmark(c.fs, c.v, StepBookmarkName(c.fs, c.v.GUID, c.job).name)
    IN  /\ c.pc = "hold_bookmark"
        /\ Return(p, r.err, r.versions, holds)

HoldStep(p) == HoldValidate(p) \/ HoldHold(p) \/ HoldBookmark(p)

\* ------------------------------------------------------------------------
\* ReleaseStep
\* ------------------------------------------------------------------------

StartReleaseStep(p, fs, v, jobID) == Begin(p, "ReleaseStep", "rel_validate", fs, v, jobID, <<>>)

\* v.ValidateExists, then StepHoldTag (snapshot) or StepBookmarkName (bookmark)
ReleaseValidate(p) ==
    LET c == calls[p]
        err == ValidateExists(c.v, c.fs)
    IN  /\ c.pc = "rel_validate"
        /\ IF err # NoErr THEN Return(p, err, versions, holds)
           ELSE IF IsSnapshot(c.v)
           THEN IF ~StepHoldTag(c.job).ok THEN Return(p, ErrValidation, versions, holds)
                ELSE Goto(p, "rel_release", versions, holds)
           ELSE IF ~StepBookmarkName(c.fs, c.v.GUID, c.job).ok
                THEN Return(p, ErrValidation, versions, holds)
                ELSE Goto(p, "rel_destroy", versions, holds)

\* zfs.ZFSRelease(ctx, tag, v.FullPath(fs))
ReleaseRelease(p) ==
    LET c == calls[p]
        r == ZFSRelease(StepHoldTag(c.job).tag, FullPath(c.v, c.fs))
    IN  /\ c.pc = "rel_release"
        /\ Return(p, r.err, versions, r.holds)

\* zfs.ZFSDestroyIdempotent(bmname): the argument is the bookmark's name as
\* StepBookmarkName returns it, without the dataset path
ReleaseDestroy(p) ==
    LET c == calls[p]
        r == ZFSDestroyIdempotent(StepBookmarkName(c.fs, c.v.GUID, c.job).name)
    IN  /\ c.pc = "rel_destroy"
        /\ Return(p, r.err, r.versions, holds)

ReleaseStep(p) == ReleaseValidate(p) \/ ReleaseRelease(p) \/ ReleaseDestroy(p)

\* ------------------------------------------------------------------------
\* ReleaseStepAll
\* ------------------------------------------------------------------------

StartReleaseStepAll(p, fs, mostRecent, jobID) ==
    Begin(p, "ReleaseStepAll", "rsa_validate", fs, mostRecent, jobID, <<>>)

\* zfs.NewDatasetPath(fs), mostRecent.ValidateExistsAndGetCheckedProps, StepHoldTag
ReleaseAllValidate(p) ==
    LET c == calls[p]
        mostRecentProps == ValidateExistsAndGetCheckedProps(c.v, c.fs)
    IN  /\ c.pc = "rsa_validate"
        /\ IF ~NewDatasetPath(c.fs) THEN Return(p, ErrValidation, versions, holds)
           ELSE IF mostRecentProps.err # NoErr THEN Return(p, mostRecentProps.err, versions, holds)
           ELSE IF ~StepHoldTag(c.job).ok THEN Return(p, ErrValidation, versions, holds)
           ELSE /\ calls' = [calls EXCEPT ![p].pc = "rsa_release", ![p].props = mostRecentProps]
                /\ UNCHANGED <<versions, holds, cloning, ncalls, moved, recording>>

\* zfs.ZFSReleaseAllOlderAndIncludingGUID(ctx, fs, mostRecent.GUID, tag)
ReleaseAllRelease(p) ==
    LET c == calls[p]
        r == ZFSReleaseAllOlderAndIncludingGUID(c.fs, c.v.GUID, StepHoldTag(c.job).tag)
    IN  /\ c.pc = "rsa_release"
        /\ IF r.err # NoErr THEN Return(p, r.err, versions, holds)
           ELSE Goto(p, "rsa_list", versions, r.holds)

\* the listed step bookmarks to destroy: those with v.CreateTXG < mostRecentProps.CreateTXG
CutOff(stepBookmarks, mostRecentProps) ==
    SelectSeq(stepBookmarks, LAMBDA v : v.CreateTXG < mostRecentProps.CreateTXG)

\* zfs.ZFSListFilesystemVersions with the filter, then the cut-off
ReleaseAllList(p) ==
    LET c == calls[p]
        stepBookmarks ==
            ZFSListFilesystemVersions(versions, c.fs, FilterFromClosure(c.fs, c.job))
        destroy == CutOff(stepBookmarks, c.props)
    IN  /\ c.pc = "rsa_list"
        /\ IF destroy = <<>> THEN Return(p, NoErr, versions, holds)
           ELSE /\ calls' = [calls EXCEPT ![p].pc = "rsa_destroy", ![p].destroy = destroy]
                /\ UNCHANGED <<versions, holds, cloning, ncalls, moved, recording>>

\* one round of the destroy loop: zfs.ZFSDestroyIdempotent(v.ToAbsPath(fsp))
ReleaseAllDestroy(p) ==
    LET c == calls[p]
        r == ZFSDestroyIdempotent(ToAbsPath(Head(c.destroy), c.fs))
    IN  /\ c.pc = "rsa_destroy"
        /\ IF r.err # NoErr THEN Return(p, r.err, versions, holds)
           ELSE IF Tail(c.destroy) = <<>> THEN Return(p, NoErr, r.versions, holds)
           ELSE /\ calls' = [calls EXCEPT ![p].destroy = Tail(c.destroy)]
                /\ versions' = r.versions
                /\ UNCHANGED <<holds, cloning, ncalls, moved, recording>>

ReleaseStepAll(p) ==
    ReleaseAllValidate(p) \/ ReleaseAllRelease(p) \/ ReleaseAllList(p) \/ ReleaseAllDestroy(p)

\* ------------------------------------------------------------------------
\* MoveLastReceivedHold
\* ------------------------------------------------------------------------

StartMoveLastReceivedHold(p, fs, to, jobID) ==
    Begin(p, "MoveLastReceivedHold", "move_validate", fs, to, jobID, <<>>)

\* MoveValidate that validates `to` only after the older holds were released:
\* the fault property C21 has to detect
MoveValidateAfterRelease(p) ==
    LET c == calls[p]
        err == ValidateExists(c.v, c.fs)
        r == ZFSReleaseAllOlderThanGUID(c.fs, c.v.GUID, LastReceivedHoldTag(c.job).tag)
    IN  /\ c.pc = "move_validate"
        /\ IF err # NoErr THEN Return(p, err, versions, r.holds)
           ELSE IF ~EntityNamecheck(FullPath(c.v, c.fs), Snapshot)
           THEN Return(p, ErrValidation, versions, r.holds)
           ELSE IF ~LastReceivedHoldTag(c.job).ok
           THEN Return(p, ErrValidation, versions, holds)
           ELSE Goto(p, "move_hold", versions, holds)

\* to.ValidateExists, zfs.EntityNamecheck(to.FullPath(fs), EntityTypeSnapshot),
\* LastReceivedHoldTag(jobID)
MoveValidate(p) ==
    LET c == calls[p]
        err == ValidateExists(c.v, c.fs)
    IN  /\ c.pc = "move_validate"
        /\ IF err # NoErr THEN Return(p, err, versions, holds)
           ELSE IF ~EntityNamecheck(FullPath(c.v, c.fs), Snapshot)
           THEN Return(p, ErrValidation, versions, holds)
           ELSE IF ~LastReceivedHoldTag(c.job).ok
           THEN Return(p, ErrValidation, versions, holds)
           ELSE Goto(p, "move_hold", versions, holds)

\* the place of the next hold acquisition in the order of acquisitions (kept
\* only while calls are recorded)
NextSeq ==
    IF recording
    THEN 1 + (CHOOSE n \in {calls[q].seq : q \in Procs} : \A q \in Procs : calls[q].seq <= n)
    ELSE 0

\* the call of process p has acquired its hold and moves on to position pc
Acquired(p, pc, hs) ==
    /\ calls' = [calls EXCEPT ![p].pc = pc, ![p].seq = NextSeq]
    /\ holds' = hs
    /\ UNCHANGED <<versions, cloning, ncalls, moved, recording>>

\* MoveHold that skips the hold when the job's tag is already on a snapshot
\* of fs: the fault property C16 has to detect
MoveHoldUnlessHeld(p) ==
    LET c == calls[p]
        tag == LastReceivedHoldTag(c.job).tag
        r == ZFSHold(c.fs, c.v, tag)
    IN  /\ c.pc = "move_hold"
        /\ IF \E h \in holds : h.fs = c.fs /\ h.tag = tag
           THEN Acquired(p, "move_release", holds)
           ELSE IF r.err # NoErr THEN Return(p, r.err, versions, holds)
           ELSE Acquired(p, "move_release", r.holds)

\* zfs.ZFSHold(ctx, fs, to, tag)
MoveHold(p) ==
    LET c == calls[p]
        r == ZFSHold(c.fs, c.v, LastReceivedHoldTag(c.job).tag)
    IN  /\ c.pc = "move_hold"
        /\ IF r.err # NoErr THEN Return(p, r.err, versions, holds)
           ELSE Acquired(p, "move_release", r.holds)

\* MoveRelease with the inclusive batch release (the hold on `to` goes
\* too): the fault property C1 has to detect
MoveReleaseIncluding(p) ==
    LET c == calls[p]
        r == ZFSReleaseAllOlderAndIncludingGUID(c.fs, c.v.GUID, LastReceivedHoldTag(c.job).tag)
    IN  /\ c.pc = "move_release"
        /\ Return(p, r.err, versions, r.holds)

\* MoveRelease that releases the tag on every snapshot but `to`: the fault
\* property C17 has to detect
MoveReleaseAllOthers(p) ==
    LET c == calls[p]
        tag == LastReceivedHoldTag(c.job).tag
        r == ZFSReleaseAllOlderThanGUID(c.fs, c.v.GUID, tag)
    IN  /\ c.pc = "move_release"
        /\ Return(p, r.err, versions,
                  {h \in holds : ~(h.fs = c.fs /\ h.tag = tag /\ h.snap # Drop(c.v.RelName, 1))})

\* zfs.ZFSReleaseAllOlderThanGUID(ctx, fs, to.GUID, tag)
MoveRelease(p) ==
    LET c == calls[p]
        r == ZFSReleaseAllOlderThanGUID(c.fs, c.v.GUID, LastReceivedHoldTag(c.job).tag)
    IN  /\ c.pc = "move_release"
        /\ Return(p, r.err, versions, r.holds)

MoveLastReceivedHold(p) == MoveValidate(p) \/ MoveHold(p) \/ MoveRelease(p)

\* ------------------------------------------------------------------------
\* The operator, acting on the pool directly
\* ------------------------------------------------------------------------

\* an operator action on the pool that leaves versions vs
Operator(vs) ==
    /\ ncalls < MaxCalls
    /\ ncalls' = ncalls + 1
    /\ versions' = vs
    /\ UNCHANGED <<holds, cloning, calls, moved, recording>>

\* zfs destroy fs@i (refused while the snapshot carries a hold)
OperatorDestroySnapshot(fs, i) ==
    LET r == ZFSDestroy(FullPath(SnapArg(i), fs))
    IN  r.err = NoErr /\ Operator(r.versions)

\* zfs destroy fs#zrepl_replication_cursor
OperatorDestroyCursor(fs) ==
    LET r == ZFSDestroy(CursorPath(fs))
    IN  r.err = NoErr /\ Operator(r.versions)

\* zfs bookmark fs@i fs#name
OperatorBookmark(fs, i, name) ==
    LET r == ZFSBookmark(fs, SnapArg(i), name)
    IN  r.err = NoErr /\ r.versions # versions /\ Operator(r.versions)

\* ------------------------------------------------------------------------
\* Specification of the replication cursor: SetReplicationCursor and
\* GetReplicationCursor called one after the other, the operator acting
\* between calls
\* ------------------------------------------------------------------------

AllSnapshots(fs) == {SnapVersion(fs, i) : i \in SnapIds}

AllPlainBookmarks(fs) == {BookmarkVersion(fs, PlainBookmarkName(i), i) : i \in SnapIds}

\* the versions a caller may name: every snapshot and every plain bookmark
VersionArgs == {SnapArg(i) : i \in SnapIds} \cup {PlainBookmarkArg(i) : i \in SnapIds}

InitCalls == [p \in Procs |-> IdleCall]

InitCursor ==
    /\ \E cur \in {{}} \cup {{BookmarkVersion(FsA, ReplicationCursorBookmarkName, i)} : i \in SnapIds} :
          versions = AllSnapshots(FsA) \cup AllPlainBookmarks(FsA) \cup cur
    /\ holds = {}
    /\ cloning \in BOOLEAN
    /\ calls = InitCalls
    /\ ncalls = 0
    /\ moved = {}
    /\ recording = TRUE

\* the targets SetReplicationCursor is given: every version, and a snapshot
\* named with the guid of another one
CursorArgs == VersionArgs \cup {SendArg(<<SnapshotDelim>> \o SnapName(1), GuidOf(NSnaps))}

NextCursor ==
    \/ \E target \in CursorArgs : Quiet /\ StartSetReplicationCursor(Caller, FsA, target)
    \/ Quiet /\ StartSetReplicationCursor(Caller, <<>>, SnapArg(NSnaps))
    \/ Quiet /\ StartGetReplicationCursor(Caller, FsA)
    \/ SetReplicationCursor(Caller)
    \/ GetList(Caller)
    \/ PortFail(Caller)
    \/ Quiet /\ OperatorDestroyCursor(FsA)
    \/ \E i \in SnapIds : Quiet /\ OperatorDestroySnapshot(FsA, i)

SpecCursor == InitCursor /\ [][NextCursor]_vars


\* ------------------------------------------------------------------------
\* Properties of the replication cursor
\* ------------------------------------------------------------------------

\* process p has returned from a call of op
Done(p, op) == calls[p].pc = "done" /\ calls[p].op = op

\* the call was not cut short by a failing port call
Uninterrupted(c) == c.err # ErrTransport

\* the cursor bookmarks of fs in a set of versions (at most one)
CursorOf(vs, fs) == Lookup(vs, CursorPath(fs))

\* the versions the argument v of a call on fs names, with the guid it gives
TargetOf(vs, fs, v) == {x \in Lookup(vs, FullPath(v, fs)) : x.Guid = v.GUID}

SameIdentity(x, y) == x.Guid = y.Guid /\ x.CreateTXG = y.CreateTXG

\* C2 (cursor monotonicity): SetReplicationCursor(fs, V), called when a
\* cursor C exists and run to its end: with V.create_txg < C.create_txg it
\* fails with "can only be advanced" and the cursor is still C; with
\* V.guid = C.guid it succeeds and no bookmark is created or destroyed; with
\* V.create_txg > C.create_txg it succeeds and the cursor has V's guid and
\* create_txg.
C2_CursorMonotonicity ==
    \A p \in Procs :
        LET c == calls[p]
        IN  (Done(p, "SetReplicationCursor") /\ Uninterrupted(c)) =>
                \A C \in CursorOf(c.pre.versions, c.fs), V \in TargetOf(c.pre.versions, c.fs, c.v) :
                    /\ V.CreateTXG < C.CreateTXG =>
                          /\ c.err = ErrCanOnlyBeAdvanced
                          /\ CursorOf(c.post.versions, c.fs) = {C}
                    /\ V.Guid = C.Guid =>
                          /\ c.err = NoErr
                          /\ Bookmarks(c.post.versions, c.fs) = Bookmarks(c.pre.versions, c.fs)
                    /\ V.CreateTXG > C.CreateTXG =>
                          /\ c.err = NoErr
                          /\ CursorOf(c.post.versions, c.fs) # {}
                          /\ \A D \in CursorOf(c.post.versions, c.fs) : SameIdentity(D, V)

\* C3 (cursor set/get): after SetReplicationCursor(fs, V) succeeds on a
\* filesystem without a cursor, fs#zrepl_replication_cursor exists and
\* GetReplicationCursor returns a version with V's create_txg and guid; a
\* GetReplicationCursor on a filesystem without that bookmark returns nil
\* and no error.
C3_CursorSetGet ==
    \A p \in Procs :
        LET c == calls[p]
        IN  /\ (Done(p, "SetReplicationCursor") /\ c.err = NoErr
                    /\ CursorOf(c.pre.versions, c.fs) = {}) =>
                  /\ CursorOf(c.post.versions, c.fs) # {}
                  /\ GetReplicationCursor(c.post.versions, c.fs).found
                  /\ TargetOf(c.pre.versions, c.fs, c.v) # {}
                  /\ \A V \in TargetOf(c.pre.versions, c.fs, c.v) :
                        SameIdentity(GetReplicationCursor(c.post.versions, c.fs), V)
            /\ (Done(p, "GetReplicationCursor") /\ Uninterrupted(c)
                    /\ CursorOf(c.pre.versions, c.fs) = {}) =>
                  /\ c.err = NoErr
                  /\ ~c.res.found

\* a SetReplicationCursor has created the cursor on a filesystem that had none
C3_Witness ==
    \E p \in Procs :
        /\ Done(p, "SetReplicationCursor")
        /\ calls[p].err = NoErr
        /\ CursorOf(calls[p].pre.versions, calls[p].fs) = {}
        /\ CursorOf(calls[p].post.versions, calls[p].fs) # {}


\* ------------------------------------------------------------------------
\* Specification of the last-received hold: MoveLastReceivedHold calls of
\* two processes interleave at every port call, a job's calls come one after
\* the other, any port call may fail, and the operator destroys snapshots
\* ------------------------------------------------------------------------

\* the snapshots of fs (by number) that carry tag
Holders(hs, fs, tag) == {i \in SnapIds : [fs |-> fs, snap |-> SnapName(i), tag |-> tag] \in hs}

HoldsOn(fs, S, tag) == {[fs |-> fs, snap |-> SnapName(i), tag |-> tag] : i \in S}

\* each process is the replication loop of one job
JobOf(p) == IF p = Caller THEN JobA ELSE JobB

\* what a caller may pass as `to`: every snapshot, and a bookmark
MoveArgs == {SnapArg(i) : i \in SnapIds} \cup {PlainBookmarkArg(NSnaps)}

InitMove ==
    /\ versions = AllSnapshots(FsA) \cup {BookmarkVersion(FsA, PlainBookmarkName(NSnaps), NSnaps)}
    /\ \E S \in {{}, SnapIds} :
          holds = HoldsOn(FsA, S, LastReceivedHoldTag(JobA).tag)
                    \cup HoldsOn(FsA, {NSnaps}, OperatorTag)
    /\ cloning = FALSE
    /\ calls = InitCalls
    /\ ncalls = 0
    /\ moved = {}
    /\ recording = FALSE

NextMove ==
    \/ \E p \in Procs, to \in MoveArgs : StartMoveLastReceivedHold(p, FsA, to, JobOf(p))
    \/ \E p \in Procs : MoveLastReceivedHold(p)
    \/ \E p \in Procs : PortFail(p)
    \/ \E i \in SnapIds : OperatorDestroySnapshot(FsA, i)

SpecMove == InitMove /\ [][NextMove]_vars


\* ------------------------------------------------------------------------
\* Properties of the last-received hold
\* ------------------------------------------------------------------------

\* every job that has moved its hold once has it on some snapshot
NoGap ==
    \A m \in moved : Holders(holds, m.fs, LastReceivedHoldTag(m.job).tag) # {}

\* a hold that disappears in a step is a last-received hold released by a
\* call that is past its acquire: `to` carries the tag, the hold is older
ReleasedAfterAcquire ==
    \A h \in holds \ holds' :
        \E p \in Procs :
            LET c == calls[p]
                tag == LastReceivedHoldTag(c.job).tag
            IN  /\ c.op = "MoveLastReceivedHold"
                /\ c.pc = "move_release"
                /\ h.fs = c.fs
                /\ h.tag = tag
                /\ [fs |-> c.fs, snap |-> Tail(c.v.RelName), tag |-> tag] \in holds
                /\ \E x \in Snapshots(versions, c.fs), to \in TargetOf(versions, c.fs, c.v) :
                      x.Name = h.snap /\ x.CreateTXG < to.CreateTXG

\* C1 (no gap): once a MoveLastReceivedHold of job J has succeeded on fs, in
\* every later state, between any two port calls and also after failed or
\* aborted calls, some snapshot of fs carries zrepl_last_received_J_<J>; and
\* within a call the hold on `to` is acquired before an older hold of J is
\* released.
C1_NoGap == [] NoGap /\ [][ReleasedAfterAcquire]_vars

\* a further call of a job that has moved its hold before stands between its
\* acquire and its release: the old and the new snapshot both carry the tag
C1_Witness ==
    \E p \in Procs :
        /\ calls[p].op = "MoveLastReceivedHold"
        /\ calls[p].pc = "move_release"
        /\ [fs |-> calls[p].fs, job |-> calls[p].job] \in moved
        /\ Cardinality(Holders(holds, calls[p].fs, LastReceivedHoldTag(calls[p].job).tag)) >= 2

\* ------------------------------------------------------------------------
\* Specification of the step markers: one caller (job JobA) runs HoldStep,
\* ReleaseStep and ReleaseStepAll one after the other; between calls an
\* operator may create a bookmark under a step-bookmark name.
\* ------------------------------------------------------------------------

\* A second filesystem.  Its pool is named like a step bookmark of JobA, so
\* that the Sscanf of ParseStepBookmarkName matches the full name of every one
\* of its bookmarks.
FsB ==
    StepBookmarkPrefix \o <<"1">> \o StepBookmarkJobSep \o JobA.jid \o <<" ", "x">>

MaxStepCalls == 2

StepHolds(fs, S, jobID) == HoldsOn(fs, S, StepHoldTag(jobID).tag)

\* the step bookmark HoldStep makes for job jobID from snapshot i (or a bookmark of it)
StepBookmarkOf(fs, i, jobID) ==
    BookmarkVersion(fs, StepBookmarkName(fs, GuidOf(i), jobID).name, i)

CursorAt(fs, i) == BookmarkVersion(fs, ReplicationCursorBookmarkName, i)

\* a version argument whose guid is not the guid of the version it names
StaleArg == SendArg(<<SnapshotDelim>> \o SnapName(1), GuidOf(NSnaps))

StepArgs == VersionArgs \cup {StaleArg}

\* the snapshot after i, cyclically
NextSnap(i) == (i % NSnaps) + 1

\* ------------------------------------------------------------------------
\* ListStepAll
\* ------------------------------------------------------------------------

\* zfs.ZFSListMapping(ctx, zfs.NoFilter()): the filesystems of the pool
ZFSListMapping == <<FsA, FsB>>

StartListStepAll(p) == Begin(p, "ListStepAll", "lsa_mapping", <<>>, SendArg(<<>>, 0), NoJobID, <<>>)

\* fss, err := zfs.ZFSListMapping(ctx, zfs.NoFilter())
ListMapping(p) ==
    /\ calls[p].pc = "lsa_mapping"
    /\ calls' = [calls EXCEPT ![p].pc = "lsa_versions", ![p].fss = ZFSListMapping]
    /\ UNCHANGED <<versions, holds, cloning, ncalls, moved, recording>>

\* head of the loop over fss: fsvs, err := zfs.ZFSListFilesystemVersions(fs, nil)
ListVersions(p) ==
    LET c == calls[p]
    IN  /\ c.pc = "lsa_versions"
        /\ IF c.fss = <<>> THEN Return(p, NoErr, versions, holds)
           ELSE /\ calls' = [calls EXCEPT
                                ![p].pc = "lsa_version",
                                ![p].fs = Head(c.fss),
                                ![p].fsvs = ZFSListFilesystemVersions(versions, Head(c.fss),
                                                                      NoFilter)]
                /\ UNCHANGED <<versions, holds, cloning, ncalls, moved, recording>>

RECURSIVE StepHoldsIn(_, _, _)

\* the StepHold entries of the holds of one snapshot, in the order ZFSHolds
\* gives them
StepHoldsIn(fs, snap, tags) ==
    IF tags = {} THEN <<>>
    ELSE LET hold == CHOOSE t \in tags : TRUE
             jobID == ParseStepHoldTag(hold)
         IN  (IF jobID.ok THEN <<[FS |-> fs, Snap |-> snap, JobID |-> jobID]>> ELSE <<>>)
                 \o StepHoldsIn(fs, snap, tags \ {hold})

\* one round of the loop over fsvs
ListVersion(p) ==
    LET c == calls[p]
        v == Head(c.fsvs)
        fullname == ToAbsPath(v, c.fs)
        parsed == ParseStepBookmarkName(fullname)
        sbm == [FS |-> c.fs, Name |-> v.Name, Guid |-> parsed.guid, JobID |-> parsed.jobID]
        out == IF v.Type = Bookmark
               THEN [c.out EXCEPT !.StepBookmarks =
                        IF parsed.ok THEN Append(@, sbm) ELSE @]
               ELSE [c.out EXCEPT !.StepHolds =
                        @ \o StepHoldsIn(c.fs, v.Name, ZFSHolds(holds, c.fs, v.Name))]
    IN  /\ c.pc = "lsa_version"
        /\ IF c.fsvs = <<>>
           THEN calls' = [calls EXCEPT ![p].pc = "lsa_versions", ![p].fss = Tail(c.fss)]
           ELSE calls' = [calls EXCEPT ![p].fsvs = Tail(c.fsvs), ![p].out = out]
        /\ UNCHANGED <<versions, holds, cloning, ncalls, moved, recording>>

ListStepAll(p) == ListMapping(p) \/ ListVersions(p) \/ ListVersion(p)

InitStep ==
    /\ cloning \in BOOLEAN
    /\ \E full \in BOOLEAN :
          /\ versions =
                AllSnapshots(FsA) \cup AllPlainBookmarks(FsA) \cup {CursorAt(FsA, 1)}
                  \cup AllSnapshots(FsB)
                  \cup {CursorAt(FsB, 1), BookmarkVersion(FsB, PlainBookmarkName(2), 2)}
                  \cup (IF full /\ cloning
                        THEN {StepBookmarkOf(FsA, i, j) : i \in SnapIds, j \in Jobs}
                        ELSE {})
          /\ holds =
                IF full
                THEN StepHolds(FsA, SnapIds, JobA) \cup StepHolds(FsA, SnapIds, JobB)
                       \cup HoldsOn(FsA, SnapIds, OperatorTag)
                       \cup HoldsOn(FsA, {NSnaps}, LastReceivedHoldTag(JobA).tag)
                ELSE {}
    /\ calls = InitCalls
    /\ ncalls = 0
    /\ moved = {}
    /\ recording = TRUE

NextStep ==
    \/ \E v \in StepArgs : ncalls < MaxStepCalls /\ StartHoldStep(Caller, FsA, v, JobA)
    \/ \E v \in StepArgs : ncalls < MaxStepCalls /\ StartReleaseStep(Caller, FsA, v, JobA)
    \/ \E fs \in {FsA, FsB}, v \in StepArgs :
          ncalls < MaxStepCalls /\ StartReleaseStepAll(Caller, fs, v, JobA)
    \/ HoldStep(Caller)
    \/ ReleaseStep(Caller)
    \/ ReleaseStepAll(Caller)
    \/ ncalls < MaxStepCalls /\ StartListStepAll(Caller)
    \/ ListStepAll(Caller)
    \/ PortFail(Caller)
    \/ \E i \in SnapIds :
          /\ Quiet
          /\ ncalls < MaxStepCalls
          /\ OperatorBookmark(FsA, i, StepBookmarkName(FsA, GuidOf(NextSnap(i)), JobA).name)

SpecStep == InitStep /\ [][NextStep]_vars

\* ------------------------------------------------------------------------
\* Properties of the step markers (SpecStep)
\* ------------------------------------------------------------------------

StepHold(fs, snap, jobID) == [fs |-> fs, snap |-> snap, tag |-> StepHoldTag(jobID).tag]

\* the bookmarks of fs in vs that carry a step-bookmark name of job jobID
StepBookmarksOf(vs, fs, jobID) ==
    {x \in Bookmarks(vs, fs) :
        \E i \in SnapIds : x.Name = StepBookmarkName(fs, GuidOf(i), jobID).name}

\* the step holds of job jobID on fs in hs
StepHoldsOf(hs, fs, jobID) == {h \in hs : h.fs = fs /\ h.tag = StepHoldTag(jobID).tag}

\* create_txg of the snapshot of fs named snap
TxgOfSnap(vs, fs, snap) ==
    (CHOOSE x \in Snapshots(vs, fs) : x.Name = snap).CreateTXG

\* C4 (rollup inclusivity, I4): after a successful ReleaseStepAll(fs, V, J) no
\* snapshot of fs with create_txg <= V.create_txg carries J's step hold tag
\* and no step bookmark of J with create_txg <= V.create_txg exists; every
\* step hold and step bookmark of J with create_txg > V.create_txg is still
\* present; every hold and bookmark that is not a step marker of J is
\* unchanged.
C4_RollupInclusivity ==
    \A p \in Procs :
        LET c == calls[p]
        IN  (Done(p, "ReleaseStepAll") /\ c.err = NoErr) =>
                \A V \in TargetOf(c.pre.versions, c.fs, c.v) :
                    /\ \A h \in StepHoldsOf(c.post.holds, c.fs, c.job) :
                          TxgOfSnap(c.post.versions, c.fs, h.snap) > V.CreateTXG
                    /\ \A x \in StepBookmarksOf(c.post.versions, c.fs, c.job) :
                          x.CreateTXG > V.CreateTXG
                    /\ \A h \in StepHoldsOf(c.pre.holds, c.fs, c.job) :
                          TxgOfSnap(c.pre.versions, c.fs, h.snap) > V.CreateTXG
                              => h \in c.post.holds
                    /\ \A x \in StepBookmarksOf(c.pre.versions, c.fs, c.job) :
                          x.CreateTXG > V.CreateTXG => x \in c.post.versions
                    /\ c.post.holds \ StepHoldsOf(c.post.holds, c.fs, c.job)
                          = c.pre.holds \ StepHoldsOf(c.pre.holds, c.fs, c.job)
                    /\ c.post.versions \ StepBookmarksOf(c.post.versions, c.fs, c.job)
                          = c.pre.versions \ StepBookmarksOf(c.pre.versions, c.fs, c.job)

\* C5 (rollup of step bookmarks, P4): after a successful ReleaseStepAll(fs, V, J)
\* on a filesystem with step bookmarks of J, every step bookmark of J with
\* create_txg < V.create_txg has been destroyed and every step bookmark of J
\* with create_txg >= V.create_txg survives.
C5_StepBookmarkRollup ==
    \A p \in Procs :
        LET c == calls[p]
        IN  (Done(p, "ReleaseStepAll") /\ c.err = NoErr) =>
                \A V \in TargetOf(c.pre.versions, c.fs, c.v) :
                    \A x \in StepBookmarksOf(c.pre.versions, c.fs, c.job) :
                        IF x.CreateTXG < V.CreateTXG
                        THEN x \notin c.post.versions
                        ELSE x \in c.post.versions

\* C10 (ReleaseStep is symmetric to HoldStep): after a successful
\* ReleaseStep(fs, v, J) a snapshot v no longer carries J's step hold tag, and
\* for a bookmark v the step bookmark that HoldStep(fs, v, J) creates no
\* longer exists on fs; ReleaseStep for a bookmark v whose step bookmark is
\* already missing succeeds.
C10_ReleaseStepSymmetric ==
    \A p \in Procs :
        LET c == calls[p]
            bmname == StepBookmarkName(c.fs, c.v.GUID, c.job).name
        IN  (Done(p, "ReleaseStep") /\ Uninterrupted(c)
                /\ TargetOf(c.pre.versions, c.fs, c.v) # {}) =>
                /\ (c.err = NoErr /\ IsSnapshot(c.v)) =>
                        StepHold(c.fs, Tail(c.v.RelName), c.job) \notin c.post.holds
                /\ (c.err = NoErr /\ IsBookmark(c.v)) =>
                        Lookup(c.post.versions, c.fs \o <<BookmarkDelim>> \o bmname) = {}
                /\ (IsBookmark(c.v)
                      /\ Lookup(c.pre.versions, c.fs \o <<BookmarkDelim>> \o bmname) = {}) =>
                        c.err = NoErr

\* the pool a successful HoldStep(fs, V, J) leaves when it starts from pool pre
AfterHoldStep(pre, c, V) ==
    IF IsSnapshot(c.v)
    THEN [pre EXCEPT !.holds = @ \cup {StepHold(c.fs, V.Name, c.job)}]
    ELSE [pre EXCEPT !.versions = @ \cup
            {[fs |-> c.fs, Type |-> Bookmark,
              Name |-> StepBookmarkName(c.fs, c.v.GUID, c.job).name,
              Guid |-> V.Guid, CreateTXG |-> V.CreateTXG]}]

\* a bookmark under the step-bookmark name of the call exists and has another guid than v
OtherGuidUnderStepName(c) ==
    /\ IsBookmark(c.v)
    /\ \E x \in Lookup(c.pre.versions,
                       c.fs \o <<BookmarkDelim>> \o StepBookmarkName(c.fs, c.v.GUID, c.job).name) :
          x.Guid # c.v.GUID

\* what C9 says of one HoldStep call on an existing version V
HoldStepOutcome(c, V) ==
    IF OtherGuidUnderStepName(c)
    THEN c.err = BookmarkExists /\ c.post = c.pre
    ELSE c.err = NoErr /\ c.post = AfterHoldStep(c.pre, c, V)

\* C9 as stated (HoldStep idempotence, P2): for an existing version v,
\* snapshot or bookmark, every HoldStep(fs, v, J) succeeds and leaves the pool
\* as a single invocation does (the pool before plus the one step hold or the
\* one step bookmark, nothing new when the marker is already there); if a
\* bookmark with the step-bookmark name exists with another guid, HoldStep
\* fails with BookmarkExists and changes nothing.
C9_HoldStepIdempotenceAsStated ==
    \A p \in Procs :
        LET c == calls[p]
        IN  (Done(p, "HoldStep") /\ Uninterrupted(c)) =>
                \A V \in TargetOf(c.pre.versions, c.fs, c.v) : HoldStepOutcome(c, V)

\* C9, amended: the statement holds for a snapshot v, and for a bookmark v on
\* a pool that can create a bookmark from a bookmark; for a bookmark v on a
\* pool that cannot, HoldStep fails with BookmarkCloningNotSupported and
\* changes nothing.
C9_HoldStepIdempotence ==
    \A p \in Procs :
        LET c == calls[p]
        IN  (Done(p, "HoldStep") /\ Uninterrupted(c)) =>
                \A V \in TargetOf(c.pre.versions, c.fs, c.v) :
                    IF IsSnapshot(c.v) \/ cloning
                    THEN HoldStepOutcome(c, V)
                    ELSE c.err = ErrBookmarkCloningNotSupported /\ c.post = c.pre

\* a HoldStep for a bookmark v has succeeded on a pool that already had the
\* step bookmark, and the pool is as before
C9_Witness ==
    \E p \in Procs :
        LET c == calls[p]
        IN  /\ Done(p, "HoldStep")
            /\ IsBookmark(c.v)
            /\ c.err = NoErr
            /\ \E V \in TargetOf(c.pre.versions, c.fs, c.v) :
                  /\ AfterHoldStep(c.pre, c, V) = c.pre
                  /\ c.post = c.pre

\* ------------------------------------------------------------------------
\* Specification of the port primitives, driven as the platform tests drive
\* them (platformtest/tests): one caller makes port calls one after the other
\* ------------------------------------------------------------------------

\* one port call of process p, from the pool before it to the pool after it
PortCall(p, op, fs, v, name, err, vs, hs) ==
    /\ Quiet
    /\ ncalls < MaxCalls
    /\ ncalls' = ncalls + 1
    /\ calls' = [calls EXCEPT ![p] =
                    [IdleCall EXCEPT !.op = op, !.pc = "done", !.fs = fs, !.v = v,
                                     !.name = name, !.err = err, !.pre = Recorded(Pool),
                                     !.post = Recorded([versions |-> vs, holds |-> hs])]]
    /\ versions' = vs
    /\ holds' = hs
    /\ UNCHANGED <<cloning, moved, recording>>

\* zfs.ZFSBookmark(fs, asnap, "a bookmark")
PortBookmark(p, fs, v, bookmark) ==
    LET r == ZFSBookmark(fs, v, bookmark)
    IN  PortCall(p, "ZFSBookmark", fs, v, bookmark, r.err, r.versions, holds)

\* zfs.ZFSDestroy(fs@snap)
PortDestroy(p, fs, v) ==
    LET r == ZFSDestroy(FullPath(v, fs))
    IN  PortCall(p, "ZFSDestroy", fs, v, <<>>, r.err, r.versions, holds)

\* zfs hold tag fs@snap
PortHold(p, fs, v, tag) ==
    LET r == ZFSHold(fs, v, tag)
    IN  PortCall(p, "ZFSHold", fs, v, tag, r.err, versions, r.holds)

\* zfs.ZFSReleaseAllOlderAndIncludingGUID(ctx, fs, guid5, "zrepl_platformtest")
PortReleaseIncluding(p, fs, v, tag) ==
    LET r == ZFSReleaseAllOlderAndIncludingGUID(fs, v.GUID, tag)
    IN  PortCall(p, "ZFSReleaseAllOlderAndIncludingGUID", fs, v, tag, r.err, versions, r.holds)

\* zfs.ZFSReleaseAllOlderThanGUID(ctx, fs, guid5, "zrepl_platformtest")
PortReleaseOlderThan(p, fs, v, tag) ==
    LET r == ZFSReleaseAllOlderThanGUID(fs, v.GUID, tag)
    IN  PortCall(p, "ZFSReleaseAllOlderThanGUID", fs, v, tag, r.err, versions, r.holds)

SnapArgs == {SnapArg(i) : i \in SnapIds}

OperatorTags == {OperatorTag, OperatorTag2}

\* the pool of the tests: snapshots only; no holds, or zrepl_platformtest on
\* every snapshot but @2 and zrepl_platformtest_2 on @2
InitPort ==
    /\ versions = AllSnapshots(FsA)
    /\ \E held \in BOOLEAN :
          holds = IF held
                  THEN HoldsOn(FsA, SnapIds \ {2}, OperatorTag) \cup HoldsOn(FsA, {2}, OperatorTag2)
                  ELSE {}
    /\ cloning \in BOOLEAN
    /\ calls = InitCalls
    /\ ncalls = 0
    /\ moved = {}
    /\ recording = TRUE

NextPort ==
    \/ \E v \in SnapArgs : PortBookmark(Caller, FsA, v, PlainBookmarkName(1))
    \/ \E v \in SnapArgs : PortDestroy(Caller, FsA, v)
    \/ \E v \in SnapArgs, tag \in OperatorTags : PortHold(Caller, FsA, v, tag)
    \/ \E v \in SnapArgs, tag \in OperatorTags : PortReleaseIncluding(Caller, FsA, v, tag)
    \/ \E v \in SnapArgs, tag \in OperatorTags : PortReleaseOlderThan(Caller, FsA, v, tag)

SpecPort == InitPort /\ [][NextPort]_vars

\* ------------------------------------------------------------------------
\* Properties of the port primitives (SpecPort)
\* ------------------------------------------------------------------------

Tagged(pool, fs, tag) ==
    {x \in Snapshots(pool.versions, fs) : tag \in ZFSHolds(pool.holds, fs, x.Name)}

OtherTags(pool, tag) == {h \in pool.holds : h.tag # tag}

\* the snapshots of fs with the guid a batch release names
Referenced(c) == {x \in Snapshots(c.pre.versions, c.fs) : x.Guid = c.v.GUID}

\* C7 (batch release, inclusive): ZFSReleaseAllOlderAndIncludingGUID(fs, guid,
\* tag) removes tag from every snapshot of fs with create_txg <= that of the
\* snapshot with the guid, keeps tag on every snapshot with greater
\* create_txg, and leaves every hold with a different tag unchanged, also one
\* that has tag as a prefix.
C7_BatchReleaseInclusive ==
    \A p \in Procs :
        LET c == calls[p]
        IN  Done(p, "ZFSReleaseAllOlderAndIncludingGUID") =>
                \A ref \in Referenced(c) :
                    /\ c.err = NoErr
                    /\ c.post.versions = c.pre.versions
                    /\ Tagged(c.post, c.fs, c.name)
                          = {x \in Tagged(c.pre, c.fs, c.name) : x.CreateTXG > ref.CreateTXG}
                    /\ OtherTags(c.post, c.name) = OtherTags(c.pre, c.name)

\* an inclusive release has run on a pool with tag on the referenced snapshot,
\* on an older and on a newer one, and with a hold that has tag as a prefix
C7_Witness ==
    \E p \in Procs :
        LET c == calls[p]
        IN  /\ Done(p, "ZFSReleaseAllOlderAndIncludingGUID")
            /\ \E ref \in Referenced(c) :
                  /\ ref \in Tagged(c.pre, c.fs, c.name)
                  /\ \E x, y \in Tagged(c.pre, c.fs, c.name) :
                        x.CreateTXG < ref.CreateTXG /\ y.CreateTXG > ref.CreateTXG
                  /\ \E h \in OtherTags(c.pre, c.name) :
                        /\ HasPrefix(h.tag, c.name)
                        /\ TxgOfSnap(c.pre.versions, c.fs, h.snap) <= ref.CreateTXG
            /\ c.post # c.pre

\* C8 (batch release, exclusive): ZFSReleaseAllOlderThanGUID(fs, guid, tag)
\* removes tag from every snapshot of fs with create_txg strictly less than
\* that of the snapshot with the guid, keeps tag on the referenced snapshot
\* and on every newer one, and leaves every hold with a different tag
\* unchanged.
C8_BatchReleaseExclusive ==
    \A p \in Procs :
        LET c == calls[p]
        IN  Done(p, "ZFSReleaseAllOlderThanGUID") =>
                \A ref \in Referenced(c) :
                    /\ c.err = NoErr
                    /\ c.post.versions = c.pre.versions
                    /\ Tagged(c.post, c.fs, c.name)
                          = {x \in Tagged(c.pre, c.fs, c.name) : x.CreateTXG >= ref.CreateTXG}
                    /\ OtherTags(c.post, c.name) = OtherTags(c.pre, c.name)

\* an exclusive release has run on a pool with tag on the referenced snapshot
\* and on an older one
C8_Witness ==
    \E p \in Procs :
        LET c == calls[p]
        IN  /\ Done(p, "ZFSReleaseAllOlderThanGUID")
            /\ \E ref \in Referenced(c) :
                  /\ ref \in Tagged(c.pre, c.fs, c.name)
                  /\ ref \in Tagged(c.post, c.fs, c.name)
                  /\ \E x \in Tagged(c.pre, c.fs, c.name) : x.CreateTXG < ref.CreateTXG
            /\ c.post # c.pre

\* ------------------------------------------------------------------------
\* Specification of the name codec: a caller formats and parses step
\* bookmark names, step hold tags and last-received hold tags
\* ------------------------------------------------------------------------

FsPool == <<"t","a","n","k">>

CodecFilesystems == {FsA, FsB, FsPool}

CodecGuids == {0, 1, 48879, 2147483647} \cup {GuidOf(i) : i \in SnapIds}

\* job ids MakeJobID accepts: two plain ones, one with a space, one with a slash
CodecJobs ==
    {JobA, JobB, MakeJobID(<<"m","y"," ","j","o","b">>), MakeJobID(<<"a","/","b">>)}

\* a call of a codec function: the arguments and what it returned
CodecCall(p, op, fs, guid, jobID, name, err, parsed) ==
    /\ calls' = [calls EXCEPT ![p] =
                    [IdleCall EXCEPT !.op = op, !.pc = "done", !.fs = fs,
                                     !.v = SendArg(<<>>, guid), !.job = jobID,
                                     !.name = name, !.err = err, !.parsed = parsed]]
    /\ UNCHANGED <<versions, holds, cloning, ncalls, moved, recording>>

\* bmname, err := StepBookmarkName(fs, guid, id)
CallStepBookmarkName(p, fs, guid, id) ==
    LET r == StepBookmarkName(fs, guid, id)
    IN  CodecCall(p, "StepBookmarkName", fs, guid, id,
                  IF r.ok THEN r.name ELSE <<>>,
                  IF r.ok THEN NoErr ELSE ErrValidation, NoStepBookmark)

\* ParseStepBookmarkName(fs + "#" + bmname) of the name just made, as the
\* callers in ReleaseStepAll and doListStepAll form it
CallParseStepBookmarkNameOfMade(p) ==
    LET c == calls[p]
        r == ParseStepBookmarkName(c.fs \o <<BookmarkDelim>> \o c.name)
    IN  /\ c.op = "StepBookmarkName"
        /\ c.err = NoErr
        /\ CodecCall(p, "ParseStepBookmarkName", c.fs, c.v.GUID, c.job,
                     c.fs \o <<BookmarkDelim>> \o c.name,
                     IF r.ok THEN NoErr ELSE ErrValidation, r)

\* ParseStepBookmarkName(name) of any other name
CallParseStepBookmarkName(p, name) ==
    LET r == ParseStepBookmarkName(name)
    IN  CodecCall(p, "ParseStepBookmarkName", <<>>, 0, NoJobID, name,
                  IF r.ok THEN NoErr ELSE ErrValidation, r)

\* full names of bookmarks and snapshots that HoldStep does not make
OtherNames ==
    {fs \o <<BookmarkDelim>> \o n :
        fs \in CodecFilesystems,
        n \in {ReplicationCursorBookmarkName, PlainBookmarkName(1),
               StepBookmarkPrefix \o <<"1">> \o StepBookmarkJobSep \o JobA.jid,
               StepBookmarkPrefix \o FormatHex(1, GuidWidth) \o StepBookmarkJobSep,
               StepHoldTag(JobA).tag}}
      \cup {FsA \o <<SnapshotDelim>> \o StepBookmarkName(FsA, 1, JobA).name,
            StepBookmarkName(FsA, 1, JobA).name}

\* a JobID a tag parser returned, in the shape of a parse result
ParsedJob(j) == [ok |-> j.ok, guid |-> 0, jobID |-> j]

\* tag, err := StepHoldTag(jobid)
CallStepHoldTag(p, jobid) ==
    LET r == StepHoldTag(jobid)
    IN  CodecCall(p, "StepHoldTag", <<>>, 0, jobid, IF r.ok THEN r.tag ELSE <<>>,
                  IF r.ok THEN NoErr ELSE ErrValidation, NoStepBookmark)

\* tag, err := LastReceivedHoldTag(jobID)
CallLastReceivedHoldTag(p, jobID) ==
    LET r == LastReceivedHoldTag(jobID)
    IN  CodecCall(p, "LastReceivedHoldTag", <<>>, 0, jobID, IF r.ok THEN r.tag ELSE <<>>,
                  IF r.ok THEN NoErr ELSE ErrValidation, NoStepBookmark)

\* ParseStepHoldTag of the tag just made
CallParseStepHoldTagOfMade(p) ==
    LET c == calls[p]
        r == ParseStepHoldTag(c.name)
    IN  /\ c.op = "StepHoldTag"
        /\ c.err = NoErr
        /\ CodecCall(p, "ParseStepHoldTag", <<>>, 0, c.job, c.name,
                     IF r.ok THEN NoErr ELSE ErrValidation, ParsedJob(r))

\* ParseLastReceivedHoldTag of the tag just made
CallParseLastReceivedHoldTagOfMade(p) ==
    LET c == calls[p]
        r == ParseLastReceivedHoldTag(c.name)
    IN  /\ c.op = "LastReceivedHoldTag"
        /\ c.err = NoErr
        /\ CodecCall(p, "ParseLastReceivedHoldTag", <<>>, 0, c.job, c.name,
                     IF r.ok THEN NoErr ELSE ErrValidation, ParsedJob(r))

\* ParseStepHoldTag(tag) of any other string
CallParseStepHoldTag(p, tag) ==
    LET r == ParseStepHoldTag(tag)
    IN  CodecCall(p, "ParseStepHoldTag", <<>>, 0, NoJobID, tag,
                  IF r.ok THEN NoErr ELSE ErrValidation, ParsedJob(r))

\* ParseLastReceivedHoldTag(tag) of any other string
CallParseLastReceivedHoldTag(p, tag) ==
    LET r == ParseLastReceivedHoldTag(tag)
    IN  CodecCall(p, "ParseLastReceivedHoldTag", <<>>, 0, NoJobID, tag,
                  IF r.ok THEN NoErr ELSE ErrValidation, ParsedJob(r))

\* hold tags, the cursor name, bare prefixes and names of other classes
TagInputs ==
    {StepHoldTag(j).tag : j \in CodecJobs} \cup {LastReceivedHoldTag(j).tag : j \in CodecJobs}
      \cup {OperatorTag, OperatorTag2, ReplicationCursorBookmarkName,
            StepHoldTagPrefix, LastReceivedHoldTagPrefix,
            <<"x">> \o StepHoldTag(JobA).tag, <<"x">> \o LastReceivedHoldTag(JobA).tag,
            StepHoldTagPrefix \o <<"a","/","/","b">>,
            StepBookmarkName(FsA, 1, JobA).name}
      \cup {fs \o <<BookmarkDelim>> \o ReplicationCursorBookmarkName : fs \in CodecFilesystems}

InitCodec ==
    /\ versions = {}
    /\ holds = {}
    /\ cloning = FALSE
    /\ calls = InitCalls
    /\ ncalls = 0
    /\ moved = {}
    /\ recording = FALSE

NextCodec ==
    \/ \E fs \in CodecFilesystems, guid \in CodecGuids, id \in CodecJobs :
          CallStepBookmarkName(Caller, fs, guid, id)
    \/ CallParseStepBookmarkNameOfMade(Caller)
    \/ \E name \in OtherNames \cup TagInputs : CallParseStepBookmarkName(Caller, name)
    \/ \E j \in CodecJobs : CallStepHoldTag(Caller, j)
    \/ \E j \in CodecJobs : CallLastReceivedHoldTag(Caller, j)
    \/ CallParseStepHoldTagOfMade(Caller)
    \/ CallParseLastReceivedHoldTagOfMade(Caller)
    \/ \E tag \in TagInputs \cup OtherNames : CallParseStepHoldTag(Caller, tag)
    \/ \E tag \in TagInputs \cup OtherNames : CallParseLastReceivedHoldTag(Caller, tag)

SpecCodec == InitCodec /\ [][NextCodec]_vars

\* ------------------------------------------------------------------------
\* Properties of the name codec (SpecCodec)
\* ------------------------------------------------------------------------

\* the part of a full name after its delimiter
BookmarkPart(name) == Drop(name, IndexOf(name, BookmarkDelim))

\* zrepl_STEP_G_<16 hex>_J_<jobid> with a non-empty job id
MatchesTemplate(b) ==
    /\ HasPrefix(b, StepBookmarkPrefix)
    /\ LET r == Drop(b, Len(StepBookmarkPrefix))
       IN  /\ Len(r) > GuidWidth + Len(StepBookmarkJobSep)
           /\ \A i \in 1..GuidWidth :
                 \E k \in DOMAIN HexChars : r[i] \in {HexChars[k], UpperHexChars[k]}
           /\ HasPrefix(Drop(r, GuidWidth), StepBookmarkJobSep)

\* C11 (step bookmark codec round-trip, P1/S6): whenever StepBookmarkName(fs,
\* guid, J) returns a name n, ParseStepBookmarkName(fs + "#" + n) succeeds and
\* returns exactly (guid, J); for every full bookmark name whose bookmark
\* part does not match zrepl_STEP_G_<16 hex>_J_<jobid>, ParseStepBookmarkName
\* fails.
C11_StepBookmarkRoundTrip ==
    \A p \in Procs :
        LET c == calls[p]
        IN  Done(p, "ParseStepBookmarkName") =>
                /\ c.job # NoJobID =>
                      /\ c.parsed.ok
                      /\ c.parsed.guid = c.v.GUID
                      /\ c.parsed.jobID = c.job
                /\ (EntityNamecheck(c.name, Bookmark) /\ ~MatchesTemplate(BookmarkPart(c.name)))
                      => ~c.parsed.ok

\* the operations of the codec that parse a string
ParseOps == {"ParseStepBookmarkName", "ParseStepHoldTag", "ParseLastReceivedHoldTag"}

\* the classes under which a string decodes
DecodesAs(s) ==
    {cls \in {"step hold", "step bookmark", "last received hold"} :
        \/ cls = "step hold" /\ ParseStepHoldTag(s).ok
        \/ cls = "step bookmark" /\ ParseStepBookmarkName(s).ok
        \/ cls = "last received hold" /\ ParseLastReceivedHoldTag(s).ok}

\* the cursor's name, bare or as the full name of a bookmark
IsCursorName(s) ==
    \/ s = ReplicationCursorBookmarkName
    \/ /\ HasChar(s, BookmarkDelim)
       /\ BookmarkPart(s) = ReplicationCursorBookmarkName

\* the hold tags of distinct jobs differ
TagsInjective ==
    \A j \in CodecJobs, k \in CodecJobs :
        j # k => /\ StepHoldTag(j).tag # StepHoldTag(k).tag
                 /\ LastReceivedHoldTag(j).tag # LastReceivedHoldTag(k).tag

\* a tag made for a job parses back to that job
TagRoundTrip ==
    \A p \in Procs :
        LET c == calls[p]
        IN  (c.pc = "done" /\ c.op \in {"ParseStepHoldTag", "ParseLastReceivedHoldTag"}
               /\ c.job # NoJobID)
                => (c.parsed.ok /\ c.parsed.jobID = c.job)

\* no string decodes under two classes
ClassesDisjoint ==
    \A p \in Procs :
        (calls[p].pc = "done" /\ calls[p].op \in ParseOps)
            => Cardinality(DecodesAs(calls[p].name)) <= 1

\* a string without the prefix of a class does not decode as a tag of it
PrefixNeeded ==
    \A p \in Procs :
        LET c == calls[p]
        IN  /\ (Done(p, "ParseStepHoldTag") /\ ~HasPrefix(c.name, StepHoldTagPrefix))
                => ~c.parsed.ok
            /\ (Done(p, "ParseLastReceivedHoldTag")
                  /\ ~HasPrefix(c.name, LastReceivedHoldTagPrefix))
                => ~c.parsed.ok

\* the cursor's name decodes under no class
CursorUndecoded ==
    \A p \in Procs :
        (calls[p].pc = "done" /\ calls[p].op \in ParseOps /\ IsCursorName(calls[p].name))
            => DecodesAs(calls[p].name) = {}

\* C12 (hold-tag codecs are injective and class-disjoint, I1):
\* ParseStepHoldTag(StepHoldTag(J)) = J and
\* ParseLastReceivedHoldTag(LastReceivedHoldTag(J)) = J; distinct job ids give
\* distinct tags; no string decodes under more than one of step hold tag, step
\* bookmark name and last-received hold tag; the cursor name
\* zrepl_replication_cursor decodes under neither hold-tag class nor as a
\* step bookmark; tags without the class prefix fail to parse.
C12_HoldTagCodecs ==
    /\ TagsInjective
    /\ TagRoundTrip
    /\ ClassesDisjoint
    /\ PrefixNeeded
    /\ CursorUndecoded

\* ------------------------------------------------------------------------
\* Properties of ListStepAll (SpecStep)
\* ------------------------------------------------------------------------

\* the holds whose tag is a step hold tag
StepTagHolds(hs) == {h \in hs : ParseStepHoldTag(h.tag).ok}

\* the bookmarks whose name is a step bookmark name
StepNamedBookmarks(vs) == {x \in vs : x.Type = Bookmark /\ MatchesTemplate(x.Name)}

\* the positions of a list whose entry satisfies fs = FS and name = Name / Snap
EntriesOfBookmark(list, b) == {i \in DOMAIN list : list[i].FS = b.fs /\ list[i].Name = b.Name}

EntriesOfHold(list, h) ==
    {i \in DOMAIN list :
        list[i] = [FS |-> h.fs, Snap |-> h.snap, JobID |-> ParseStepHoldTag(h.tag)]}

\* one StepHold per step-tag hold and no other
HoldsInventoried(c) ==
    /\ \A h \in StepTagHolds(c.pre.holds) : Cardinality(EntriesOfHold(c.out.StepHolds, h)) = 1
    /\ Len(c.out.StepHolds) = Cardinality(StepTagHolds(c.pre.holds))

\* one StepBookmark per step-bookmark-named bookmark and no other
BookmarksInventoried(c) ==
    /\ \A b \in StepNamedBookmarks(c.pre.versions) :
          Cardinality(EntriesOfBookmark(c.out.StepBookmarks, b)) = 1
    /\ Len(c.out.StepBookmarks) = Cardinality(StepNamedBookmarks(c.pre.versions))

\* C13 (inventory completeness, P6): ListStepAll returns one StepHold for
\* every hold on any snapshot of any managed filesystem whose tag parses as a
\* step hold tag, and one StepBookmark for every bookmark whose name parses
\* as a step bookmark name, and nothing else.
C13_InventoryComplete ==
    \A p \in Procs :
        (Done(p, "ListStepAll") /\ calls[p].err = NoErr)
            => (HoldsInventoried(calls[p]) /\ BookmarksInventoried(calls[p]))

\* ------------------------------------------------------------------------
\* Specification of two jobs: the replication loops of JobA (process 1) and
\* JobB (process 2) each make one call, concurrently, on the same pool.
\* ------------------------------------------------------------------------

\* the versions the two jobs name
JobArgs == {SnapArg(i) : i \in SnapIds} \cup {PlainBookmarkArg(2)}

\* p has made no call yet
Fresh(p) == calls[p].pc = "idle"

InitJobs ==
    /\ cloning \in BOOLEAN
    /\ \E full \in BOOLEAN :
          /\ versions =
                AllSnapshots(FsA) \cup AllPlainBookmarks(FsA) \cup AllSnapshots(FsB)
                  \cup {BookmarkVersion(FsB, PlainBookmarkName(2), 2)}
                  \cup (IF full /\ cloning
                        THEN {StepBookmarkOf(fs, i, j) : fs \in {FsA, FsB}, i \in {1, 2}, j \in Jobs}
                        ELSE {})
          /\ holds =
                IF full
                THEN UNION {StepHolds(FsA, SnapIds, j) \cup HoldsOn(FsA, {1}, LastReceivedHoldTag(j).tag)
                              : j \in Jobs}
                ELSE {}
    /\ calls = InitCalls
    /\ ncalls = 0
    /\ moved = {}
    /\ recording = FALSE

NextJobs ==
    \/ \E p \in Procs, fs \in {FsA, FsB}, v \in JobArgs :
          Fresh(p) /\ StartHoldStep(p, fs, v, JobOf(p))
    \/ \E p \in Procs, fs \in {FsA, FsB}, v \in JobArgs :
          Fresh(p) /\ StartReleaseStep(p, fs, v, JobOf(p))
    \/ \E p \in Procs, fs \in {FsA, FsB}, v \in JobArgs :
          Fresh(p) /\ StartReleaseStepAll(p, fs, v, JobOf(p))
    \/ \E p \in Procs, to \in JobArgs :
          Fresh(p) /\ StartMoveLastReceivedHold(p, FsA, to, JobOf(p))
    \/ \E p \in Procs : HoldStep(p)
    \/ \E p \in Procs : ReleaseStep(p)
    \/ \E p \in Procs : ReleaseStepAll(p)
    \/ \E p \in Procs : MoveLastReceivedHold(p)
    \/ \E p \in Procs : PortFail(p)

SpecJobs == InitJobs /\ [][NextJobs]_vars

\* ------------------------------------------------------------------------
\* Properties of two jobs (SpecJobs)
\* ------------------------------------------------------------------------

\* the step holds, step bookmarks and last-received holds of job jobID
MarkersOf(vs, hs, jobID) ==
    [stepHolds |-> {h \in hs : h.tag = StepHoldTag(jobID).tag},
     lastReceived |-> {h \in hs : h.tag = LastReceivedHoldTag(jobID).tag},
     stepBookmarks |->
        {x \in vs : /\ x.Type = Bookmark
                    /\ \E i \in SnapIds : x.Name = StepBookmarkName(x.fs, GuidOf(i), jobID).name}]

\* a step of the call of p leaves the markers of every other job alone
OthersUntouched ==
    \A p \in Procs, k \in Jobs :
        (calls'[p] # calls[p] /\ k # calls'[p].job)
            => MarkersOf(versions', holds', k) = MarkersOf(versions, holds, k)

\* two MoveLastReceivedHold calls on the same filesystem, one per job, have
\* both returned success
BothMoved ==
    \A p \in Procs : Done(p, "MoveLastReceivedHold") /\ calls[p].err = NoErr

\* each job's tag is on that job's target
OwnTagOnOwnTarget ==
    \A p \in Procs :
        [fs |-> calls[p].fs, snap |-> Drop(calls[p].v.RelName, 1),
         tag |-> LastReceivedHoldTag(calls[p].job).tag] \in holds

\* C14 (multi-job non-interference): for distinct jobs J and K, the
\* operations for J never add or remove K's step hold, K's step bookmark or
\* K's last-received hold, in any interleaving; two concurrent
\* MoveLastReceivedHold calls for J and K on the same filesystem each end with
\* their own tag on their own target.
C14_MultiJobNonInterference ==
    /\ [][OthersUntouched]_vars
    /\ [](BothMoved => OwnTagOnOwnTarget)

\* ------------------------------------------------------------------------
\* Specification of a rollup racing a step: for the same job JobA, process 1
\* calls ReleaseStepAll once and process 2 calls HoldStep once, concurrently.
\* ------------------------------------------------------------------------

Releaser == 1

Holder == 2

NextRollup ==
    \/ \E fs \in {FsA, FsB}, mostRecent \in JobArgs :
          Fresh(Releaser) /\ StartReleaseStepAll(Releaser, fs, mostRecent, JobA)
    \/ \E fs \in {FsA, FsB}, v \in JobArgs :
          Fresh(Holder) /\ StartHoldStep(Holder, fs, v, JobA)
    \/ ReleaseStepAll(Releaser)
    \/ HoldStep(Holder)
    \/ \E p \in Procs : PortFail(p)

SpecRollup == InitJobs /\ [][NextRollup]_vars

\* ------------------------------------------------------------------------
\* Properties of a rollup racing a step (SpecRollup)
\* ------------------------------------------------------------------------

\* both calls have completed, on the same filesystem, neither cut short, and
\* HoldStep names a version it can hold on this pool
RaceOver ==
    /\ Done(Releaser, "ReleaseStepAll")
    /\ Done(Holder, "HoldStep")
    /\ calls[Releaser].fs = calls[Holder].fs
    /\ Uninterrupted(calls[Releaser])
    /\ Uninterrupted(calls[Holder])
    /\ (IsSnapshot(calls[Holder].v) \/ cloning)

\* create_txg of the version an argument names
TxgOfArg(v) == CreateTXGOf(CHOOSE i \in SnapIds : GuidOf(i) = v.GUID)

\* the step marker HoldStep(fs, v, jobID) makes is there
MarkerPresent(fs, v, jobID) ==
    IF IsSnapshot(v)
    THEN [fs |-> fs, snap |-> Drop(v.RelName, 1), tag |-> StepHoldTag(jobID).tag] \in holds
    ELSE \E x \in Bookmarks(versions, fs) :
            x.Name = StepBookmarkName(fs, v.GUID, jobID).name /\ x.Guid = v.GUID

\* what the rollup of process Releaser may remove: step holds of its job on
\* snapshots up to mostRecent and step bookmarks of its job older than mostRecent
MayRelease(h) ==
    LET c == calls[Releaser]
    IN  /\ h.fs = c.fs
        /\ h.tag = StepHoldTag(c.job).tag
        /\ TxgOfSnap(versions, h.fs, h.snap) <= c.props.CreateTXG

MayDestroy(x) ==
    LET c == calls[Releaser]
    IN  /\ x \in StepBookmarksOf(versions, c.fs, c.job)
        /\ x.CreateTXG < c.props.CreateTXG

\* no step removes anything else
OnlyOldStepMarkersRemoved ==
    /\ \A h \in holds \ holds' : MayRelease(h)
    /\ \A x \in versions \ versions' : MayDestroy(x)

\* neither call fails, and a step marker newer than mostRecent is there
RaceOutcome ==
    RaceOver =>
        /\ calls[Releaser].err = NoErr
        /\ calls[Holder].err = NoErr
        /\ TxgOfArg(calls[Holder].v) > calls[Releaser].props.CreateTXG
              => MarkerPresent(calls[Holder].fs, calls[Holder].v, calls[Holder].job)

\* C15 (ReleaseStepAll versus concurrent HoldStep of the same job): when
\* ReleaseStepAll(fs, mostRecent, J) runs concurrently with HoldStep(fs, v, J),
\* if v.create_txg > mostRecent.create_txg the step marker created by HoldStep
\* is present after both complete in every interleaving; if v.create_txg <=
\* mostRecent.create_txg the marker is present or absent; no interleaving
\* produces an error state or removes any other marker.
C15_RollupVersusHoldStep ==
    /\ []RaceOutcome
    /\ [][OnlyOldStepMarkersRemoved]_vars

\* ------------------------------------------------------------------------
\* Specification of racing moves: two replication loops of the same job JobA
\* each call MoveLastReceivedHold once, concurrently, on the same filesystem.
\* ------------------------------------------------------------------------

InitRace ==
    /\ versions = AllSnapshots(FsA) \cup {BookmarkVersion(FsA, PlainBookmarkName(NSnaps), NSnaps)}
    /\ \E S \in {{}, {1}, SnapIds} :
          holds = HoldsOn(FsA, S, LastReceivedHoldTag(JobA).tag)
                    \cup HoldsOn(FsA, {1}, OperatorTag)
    /\ cloning = FALSE
    /\ calls = InitCalls
    /\ ncalls = 0
    /\ moved = {}
    /\ recording = TRUE

NextRace ==
    \/ \E p \in Procs, to \in MoveArgs :
          Fresh(p) /\ StartMoveLastReceivedHold(p, FsA, to, JobA)
    \/ \E p \in Procs : MoveLastReceivedHold(p)
    \/ \E p \in Procs : PortFail(p)

SpecRace == InitRace /\ [][NextRace]_vars

\* ------------------------------------------------------------------------
\* Properties of racing moves (SpecRace)
\* ------------------------------------------------------------------------

\* the snapshots of fs that carry the last-received tag of jobID
LastReceivedOn(fs, jobID) == Holders(holds, fs, LastReceivedHoldTag(jobID).tag)

\* the snapshot a version argument names
SnapOfArg(v) == CHOOSE i \in SnapIds : GuidOf(i) = v.GUID

\* both calls have completed, neither cut short, both with a snapshot target
MovesOver ==
    \A p \in Procs :
        /\ Done(p, "MoveLastReceivedHold")
        /\ Uninterrupted(calls[p])
        /\ IsSnapshot(calls[p].v)

\* both acquisitions and both calls succeed, and no snapshot older than both
\* targets carries the tag
BothSucceedNoneOlder ==
    /\ \A p \in Procs : calls[p].err = NoErr /\ calls[p].seq > 0
    /\ \A i \in LastReceivedOn(FsA, JobA) :
          \E p \in Procs : i >= SnapOfArg(calls[p].v)

\* the process whose acquire happened last
LastAcquirer == CHOOSE p \in Procs : \A q \in Procs : calls[q].seq <= calls[p].seq

\* the process whose target is the newest
NewestTarget ==
    CHOOSE p \in Procs : \A q \in Procs : SnapOfArg(calls[q].v) <= SnapOfArg(calls[p].v)

\* C16 as stated: after both calls complete the tag is on the target whose
\* acquire happened last
C16_RacingMovesAsStated ==
    MovesOver =>
        /\ BothSucceedNoneOlder
        /\ SnapOfArg(calls[LastAcquirer].v) \in LastReceivedOn(FsA, JobA)

\* C16 (racing MoveLastReceivedHold calls of the same job): when two
\* MoveLastReceivedHold calls for the same job J and filesystem with targets
\* A and B interleave arbitrarily at port-call granularity, both hold
\* acquisitions succeed, both calls return success, and after both complete
\* the job's last-received tag is present on at least one of A and B, namely
\* on the one with the greater create_txg whichever acquire happened last,
\* and on no snapshot older than both A and B.
C16_RacingMoves ==
    MovesOver =>
        /\ BothSucceedNoneOlder
        /\ SnapOfArg(calls[NewestTarget].v) \in LastReceivedOn(FsA, JobA)

\* the two calls raced, the older target was acquired last and lost its hold
C16_Witness ==
    /\ MovesOver
    /\ SnapOfArg(calls[LastAcquirer].v) < SnapOfArg(calls[NewestTarget].v)
    /\ SnapOfArg(calls[LastAcquirer].v) \notin LastReceivedOn(FsA, JobA)
    /\ SnapOfArg(calls[NewestTarget].v) \in LastReceivedOn(FsA, JobA)

\* ------------------------------------------------------------------------
\* Specification of retried moves: one replication loop of JobA calls
\* MoveLastReceivedHold again and again; a call may be cut short at any port
\* call, the batch release also after it has released some of the holds.
\* ------------------------------------------------------------------------

\* zfs.ZFSReleaseAllOlderThanGUID dies after releasing only the holds in
\* released, a part of what it was to release
ReleaseAborted(p, released) ==
    LET c == calls[p]
        r == ZFSReleaseAllOlderThanGUID(c.fs, c.v.GUID, LastReceivedHoldTag(c.job).tag)
    IN  /\ c.pc = "move_release"
        /\ r.err = NoErr
        /\ released # {}
        /\ released \subseteq holds \ r.holds
        /\ Return(p, ErrTransport, versions, holds \ released)

\* a snapshot that does not exist
MissingArg == SendArg(<<SnapshotDelim>> \o SnapName(NSnaps + 1), GuidOf(NSnaps + 1))

\* what the caller passes as `to`: every snapshot, a bookmark, a snapshot
\* named with the guid of another one, and a snapshot that does not exist
RetryArgs == MoveArgs \cup {StaleArg, MissingArg}

NextRetry ==
    \/ \E to \in RetryArgs : Quiet /\ StartMoveLastReceivedHold(Caller, FsA, to, JobA)
    \/ MoveLastReceivedHold(Caller)
    \/ PortFail(Caller)
    \/ \E released \in SUBSET holds : ReleaseAborted(Caller, released)

SpecRetry == InitRace /\ [][NextRetry]_vars

\* ------------------------------------------------------------------------
\* Properties of retried moves (SpecRetry)
\* ------------------------------------------------------------------------

\* the call c re-invokes the call its process made just before, which was cut
\* short at position pc
RetryOf(c, pc) ==
    /\ c.prev.op = c.op
    /\ c.prev.fs = c.fs
    /\ c.prev.v = c.v
    /\ c.prev.job = c.job
    /\ c.prev.at = pc

\* the call of p re-invoked a MoveLastReceivedHold that was cut short after
\* its hold and before or during its release, and has returned
MoveRetried(p) ==
    /\ Done(p, "MoveLastReceivedHold")
    /\ Uninterrupted(calls[p])
    /\ RetryOf(calls[p], "move_release")

\* C17 (retry after partial failure of MoveLastReceivedHold): if
\* MoveLastReceivedHold(fs, to, J) fails or is aborted after acquiring the
\* hold on `to` but before (or during) the release of older holds,
\* re-invoking the same call succeeds, `to` still carries J's last-received
\* tag, and afterwards no snapshot with create_txg < to.create_txg carries
\* that tag; holds of J on snapshots newer than `to` are left in place.
C17_MoveRetry ==
    \A p \in Procs :
        MoveRetried(p) =>
            LET c == calls[p]
                to == SnapOfArg(c.v)
                tag == LastReceivedHoldTag(c.job).tag
            IN  /\ c.err = NoErr
                /\ to \in Holders(holds, c.fs, tag)
                /\ \A i \in Holders(holds, c.fs, tag) : i >= to
                /\ \A i \in Holders(c.prev.pre.holds, c.fs, tag) :
                      i > to => i \in Holders(holds, c.fs, tag)

\* a retry that found older holds left behind, with a hold on a newer snapshot
C17_Witness ==
    \E p \in Procs :
        /\ MoveRetried(p)
        /\ \E i \in Holders(calls[p].pre.holds, calls[p].fs, LastReceivedHoldTag(JobA).tag) :
              i < SnapOfArg(calls[p].v)
        /\ \E i \in Holders(holds, calls[p].fs, LastReceivedHoldTag(JobA).tag) :
              i > SnapOfArg(calls[p].v)

\* ------------------------------------------------------------------------
\* Properties of the cursor advance under interruption (SpecCursor)
\* ------------------------------------------------------------------------

\* the SetReplicationCursor call c was cut short after it had destroyed the
\* old cursor and before it created the new one
CrashedInWindow(c) ==
    /\ c.op = "SetReplicationCursor"
    /\ c.at = "set_bookmark"
    /\ CursorOf(c.pre.versions, c.fs) # {}

\* the cursor is absent after a call cut short in the window
AbsentAfterCrash ==
    \A p \in Procs :
        (Done(p, "SetReplicationCursor") /\ CrashedInWindow(calls[p]))
            => CursorOf(calls[p].post.versions, calls[p].fs) = {}

\* the call of p re-invoked a SetReplicationCursor cut short in the window,
\* its target still exists, and it has run to its end
SetRetried(p) ==
    /\ Done(p, "SetReplicationCursor")
    /\ Uninterrupted(calls[p])
    /\ RetryOf(calls[p], "set_bookmark")
    /\ CrashedInWindow(calls[p].prev)
    /\ TargetOf(calls[p].pre.versions, calls[p].fs, calls[p].v) # {}

\* the retry succeeds and leaves the cursor at V
RetrySucceeds(p) ==
    LET c == calls[p]
    IN  /\ c.err = NoErr
        /\ CursorOf(c.post.versions, c.fs) # {}
        /\ \A D \in CursorOf(c.post.versions, c.fs), V \in TargetOf(c.pre.versions, c.fs, c.v) :
              SameIdentity(D, V)

\* C18 (crash window of the cursor advance): if SetReplicationCursor(fs, V)
\* is interrupted after destroying the old cursor bookmark and before
\* creating the new one, the cursor is absent; re-invoking
\* SetReplicationCursor(fs, V) with the same still-existing target then
\* succeeds and leaves the cursor at V, the same final state as an
\* uninterrupted call.
C18_CrashWindowRetry ==
    /\ AbsentAfterCrash
    /\ \A p \in Procs : SetRetried(p) => RetrySucceeds(p)

\* C19 (cursor monotonicity across crashes): over any sequence of
\* SetReplicationCursor calls on one filesystem, including calls interrupted
\* between the destroy of the old cursor and the creation of the new one, the
\* create_txg of the cursor observed whenever it is present never decreases:
\* a cursor a call leaves is not older than the cursor the call found, nor
\* older than the cursor a call cut short just before had destroyed.
C19_MonotoneAcrossCrashes ==
    \A p \in Procs :
        LET c == calls[p]
        IN  Done(p, "SetReplicationCursor") =>
                \A D \in CursorOf(c.post.versions, c.fs) :
                    /\ \A C \in CursorOf(c.pre.versions, c.fs) : D.CreateTXG >= C.CreateTXG
                    /\ (CrashedInWindow(c.prev) /\ c.prev.fs = c.fs) =>
                          \A C \in CursorOf(c.prev.pre.versions, c.fs) :
                              D.CreateTXG >= C.CreateTXG

\* the call c has an empty fs or a target that names no existing version
\* with the given guid
InvalidCall(c) == Len(c.fs) = 0 \/ TargetOf(c.pre.versions, c.fs, c.v) = {}

\* C20 (validation precedes mutation in SetReplicationCursor): if fs is
\* empty or target does not refer to an existing version with the given guid,
\* SetReplicationCursor returns an error before issuing any destroy or
\* bookmark call, and the cursor bookmark (present or absent) is exactly as
\* before the call.
C20_ValidationPrecedesMutation ==
    \A p \in Procs :
        LET c == calls[p]
        IN  (Done(p, "SetReplicationCursor") /\ InvalidCall(c)) =>
                /\ c.err # NoErr
                /\ c.post = c.pre
                /\ CursorOf(c.post.versions, FsA) = CursorOf(c.pre.versions, FsA)

\* a call whose target is missing or has another guid has returned, on a
\* filesystem whose cursor is older than the version of that guid
C20_Witness ==
    \E p \in Procs :
        /\ Done(p, "SetReplicationCursor")
        /\ Uninterrupted(calls[p])
        /\ InvalidCall(calls[p])
        /\ Len(calls[p].fs) # 0
        /\ CursorOf(calls[p].pre.versions, FsA) # {}
        /\ \A C \in CursorOf(calls[p].pre.versions, FsA) :
              C.CreateTXG < CreateTXGOf(SnapOfArg(calls[p].v))

\* ------------------------------------------------------------------------
\* Properties of the validation of MoveLastReceivedHold (SpecRetry)
\* ------------------------------------------------------------------------

\* the call c names a `to` that does not exist, or a bookmark
RejectedTarget(c) == TargetOf(c.pre.versions, c.fs, c.v) = {} \/ IsBookmark(c.v)

\* C21 (MoveLastReceivedHold rejects non-snapshots and missing targets): if
\* `to` does not exist or is a bookmark, MoveLastReceivedHold returns an
\* error without acquiring or releasing any hold, so all holds on the
\* filesystem are unchanged.
C21_MoveRejectsInvalidTarget ==
    \A p \in Procs :
        LET c == calls[p]
        IN  (Done(p, "MoveLastReceivedHold") /\ RejectedTarget(c)) =>
                /\ c.err # NoErr
                /\ c.seq = 0
                /\ c.post.holds = c.pre.holds
                /\ holds = c.pre.holds

\* a call with a bookmark as `to` has returned, not cut short, on a
\* filesystem with last-received holds on snapshots older than the bookmark
C21_Witness ==
    \E p \in Procs :
        /\ Done(p, "MoveLastReceivedHold")
        /\ Uninterrupted(calls[p])
        /\ IsBookmark(calls[p].v)
        /\ TargetOf(calls[p].pre.versions, calls[p].fs, calls[p].v) # {}
        /\ \E i \in Holders(calls[p].pre.holds, calls[p].fs, LastReceivedHoldTag(JobA).tag) :
              i < SnapOfArg(calls[p].v)

\* ------------------------------------------------------------------------
\* Properties of SetReplicationCursor on error (SpecCursor)
\* ------------------------------------------------------------------------

\* the cursor of fs is the same in both sets of versions, or absent in both
SameCursor(vs, ws, fs) ==
    /\ (CursorOf(vs, fs) = {}) = (CursorOf(ws, fs) = {})
    /\ \A C \in CursorOf(vs, fs), D \in CursorOf(ws, fs) : SameIdentity(C, D)

\* C22 (SetReplicationCursor is all-or-nothing on error): whenever
\* SetReplicationCursor(fs, V) returns an error of any kind (BookmarkExists,
\* BookmarkCloningNotSupported when V is a bookmark, or a failure of the
\* bookmark call after the old cursor was destroyed), the replication cursor
\* bookmark of fs is identical (same guid and create_txg, or still absent) to
\* what it was before the call.
C22_AllOrNothingOnError ==
    \A p \in Procs :
        LET c == calls[p]
        IN  (Done(p, "SetReplicationCursor") /\ c.err # NoErr)
                => SameCursor(c.pre.versions, c.post.versions, c.fs)

\* ------------------------------------------------------------------------
\* Two processes advance the cursor of one filesystem (SpecAdvance): each
\* makes one SetReplicationCursor call; the calls interleave between their
\* port calls.
\* ------------------------------------------------------------------------

InitAdvance ==
    /\ \E cur \in {{}, {BookmarkVersion(FsA, ReplicationCursorBookmarkName, 1)}} :
          versions = AllSnapshots(FsA) \cup cur
    /\ holds = {}
    /\ cloning \in BOOLEAN
    /\ calls = InitCalls
    /\ ncalls = 0
    /\ moved = {}
    /\ recording = TRUE

NextAdvance ==
    \/ \E p \in Procs, target \in SnapArgs :
          Fresh(p) /\ StartSetReplicationCursor(p, FsA, target)
    \/ \E p \in Procs : SetReplicationCursor(p)
    \/ \E p \in Procs : PortFail(p)

SpecAdvance == InitAdvance /\ [][NextAdvance]_vars

\* both processes have returned from SetReplicationCursor on one filesystem,
\* neither cut short, and their targets differ
BothAdvanced(p, q) ==
    /\ p # q
    /\ Done(p, "SetReplicationCursor") /\ Uninterrupted(calls[p])
    /\ Done(q, "SetReplicationCursor") /\ Uninterrupted(calls[q])
    /\ calls[p].fs = calls[q].fs
    /\ TxgOfArg(calls[p].v) < TxgOfArg(calls[q].v)

\* the create_txg values the cursor of fs was seen with by the call c: when
\* it started and when it returned
CursorSeen(c) ==
    {C.CreateTXG : C \in CursorOf(c.pre.versions, c.fs) \cup CursorOf(c.post.versions, c.fs)}

\* C23 (concurrent cursor advance): when two SetReplicationCursor calls on
\* the same filesystem with different targets interleave between their port
\* calls (read cursor, destroy, bookmark), the cursor's create_txg never ends
\* lower than a value it held earlier, and after both calls return the
\* cursor exists and points at the target with the greater create_txg.
C23_ConcurrentCursorAdvance ==
    \A p, q \in Procs :
        BothAdvanced(p, q) =>
            /\ CursorOf(versions, calls[q].fs) # {}
            /\ \A C \in CursorOf(versions, calls[q].fs) :
                  /\ C.Guid = calls[q].v.GUID
                  /\ C.CreateTXG = TxgOfArg(calls[q].v)
                  /\ \A t \in CursorSeen(calls[p]) \cup CursorSeen(calls[q]) :
                        t <= C.CreateTXG

\* ------------------------------------------------------------------------
\* One caller uses every marker operation on filesystems that carry a
\* cursor, step markers and last-received holds (SpecMarkers)
\* ------------------------------------------------------------------------

NextMarkers ==
    \/ \E v \in StepArgs : ncalls < MaxStepCalls /\ StartHoldStep(Caller, FsA, v, JobA)
    \/ \E v \in StepArgs : ncalls < MaxStepCalls /\ StartReleaseStep(Caller, FsA, v, JobA)
    \/ \E fs \in {FsA, FsB}, v \in StepArgs :
          ncalls < MaxStepCalls /\ StartReleaseStepAll(Caller, fs, v, JobA)
    \/ \E v \in MoveArgs :
          ncalls < MaxStepCalls /\ StartMoveLastReceivedHold(Caller, FsA, v, JobA)
    \/ \E v \in VersionArgs :
          ncalls < MaxStepCalls /\ StartSetReplicationCursor(Caller, FsA, v)
    \/ HoldStep(Caller)
    \/ ReleaseStep(Caller)
    \/ ReleaseStepAll(Caller)
    \/ MoveLastReceivedHold(Caller)
    \/ SetReplicationCursor(Caller)
    \/ PortFail(Caller)

SpecMarkers == InitStep /\ [][NextMarkers]_vars

StepOps == {"HoldStep", "ReleaseStep", "ReleaseStepAll"}

\* the replication cursor bookmarks among the versions vs
CursorBookmarks(vs) ==
    {x \in vs : x.Type = Bookmark /\ x.Name = ReplicationCursorBookmarkName}

AllSnapshotsIn(vs) == {x \in vs : x.Type = Snapshot}

LastReceivedHolds(hs) == {h \in hs : ParseLastReceivedHoldTag(h.tag).ok}

\* the step operations and MoveLastReceivedHold leave the cursor alone
CursorKept ==
    calls[Caller].op \in StepOps \cup {"MoveLastReceivedHold"}
        => CursorBookmarks(versions') = CursorBookmarks(versions)

\* the step operations and MoveLastReceivedHold destroy no snapshot
SnapshotsKept ==
    calls[Caller].op \in StepOps \cup {"MoveLastReceivedHold"}
        => AllSnapshotsIn(versions) \subseteq AllSnapshotsIn(versions')

\* the step operations leave the last-received holds alone
LastReceivedKept ==
    calls[Caller].op \in StepOps
        => LastReceivedHolds(holds') = LastReceivedHolds(holds)

\* MoveLastReceivedHold leaves step holds and step bookmarks alone
StepMarkersKept ==
    calls[Caller].op = "MoveLastReceivedHold"
        => /\ StepTagHolds(holds') = StepTagHolds(holds)
           /\ StepNamedBookmarks(versions') = StepNamedBookmarks(versions)

\* SetReplicationCursor changes no hold and no version but the cursor
OnlyCursorSet ==
    calls[Caller].op = "SetReplicationCursor"
        => /\ holds' = holds
           /\ versions' \ CursorBookmarks(versions') = versions \ CursorBookmarks(versions)

\* C24 (marker classes do not disturb each other or the data): HoldStep,
\* ReleaseStep, ReleaseStepAll and MoveLastReceivedHold never create, move or
\* destroy the bookmark zrepl_replication_cursor and never destroy a
\* snapshot; step operations never change last-received holds and
\* MoveLastReceivedHold never changes step holds or step bookmarks;
\* SetReplicationCursor never changes any hold and never creates or destroys
\* any bookmark other than zrepl_replication_cursor.
C24_MarkerClassesApart ==
    [][/\ CursorKept
       /\ SnapshotsKept
       /\ LastReceivedKept
       /\ StepMarkersKept
       /\ OnlyCursorSet]_vars

============================================================================
